---- MODULE Spec2Model ----
(***************************************************************************)
(* Playback engine of realtimesploit (src/realtimesploit/PlaybackMode.tsx) *)
(* as a state machine.                                                     *)
(*                                                                         *)
(* The component's React state (state, currentIndex, loopCount,            *)
(* actionQueue), its ref isRunningRef and the watchdog timer are the       *)
(* variables.  One step is one host-loop event: a key press handled by     *)
(* useInput, the run of the "running actions" effect after a commit that   *)
(* changed one of its dependencies, the resolution or rejection of an      *)
(* awaited promise of processNextAction / executeAction, the firing of the *)
(* watchdog timer, or the passing of one second.  The updates a handler    *)
(* makes are committed together; the effect that the commit schedules runs *)
(* before the next event is taken (effectPending).                         *)
(***************************************************************************)
EXTENDS Integers, Sequences, FiniteSets, TLC

\* ---------------------------------------------------------------- bounds
MaxLen == 2          \* longest recording drawn in Init
MaxCmds == 3         \* key presses per behaviour
MaxLoops == 1        \* passes counted in loop mode
MaxFileLen == 2      \* longest action list of a file given to the codec
MaxRecOps == 5       \* calls made on the recording manager
MaxKeys == 9         \* keys and submits given to Explorer
MaxDiffEdits == 2    \* edits made to the file under review

\* ------------------------------------------------------- the store (db)
Null == "null"
Vals == {"stale", "ok"}
UsersPath == <<"/", "u", "s", "e", "r", "s">>
Children == << <<"a">>, <<"b">> >>
ChildPath(c) == UsersPath \o <<"/">> \o c
Paths == {ChildPath(Children[n]) : n \in DOMAIN Children}

\* ------------------------------------------------------ recorded actions
SleepA == [type |-> "sleep", timeMs |-> 100]
EditA == [type |-> "edit", key |-> ChildPath(<<"a">>), value |-> "ok"]
DeleteB == [type |-> "delete", key |-> ChildPath(<<"b">>)]
GetA == [type |-> "get", key |-> ChildPath(<<"a">>)]
ExecStale == [type |-> "exec", path |-> UsersPath, targetExpr |-> "isStale", actionExpr |-> "delete"]

\* The recordings played: every run of at most MaxLen consecutive actions of
\* this cycle of the five action types, the empty recording included.
Master == <<SleepA, EditA, DeleteB, ExecStale, GetA>>

Recordings ==
  LET Window(start, len) == [k \in 1..len |-> Master[((start + k - 2) % Len(Master)) + 1]]
  IN {Window(start, len) : start \in 1..Len(Master), len \in 0..MaxLen}

Headers == [playMode : {"normal", "loop"}, confirmActions : BOOLEAN, autoSleepMs : {0, 500}, timeoutSeconds : {1}]

InitStores == {[p \in Paths |-> IF p = ChildPath(<<"a">>) THEN "stale" ELSE "ok"]}

VARIABLES
  header,          \* recording.header
  recording,       \* recording.actions
  db,              \* the remote store
  state,           \* useState<PlaybackState>
  currentIndex,    \* useState(0)
  loopCount,       \* useState(0)
  actionQueue,     \* useState(recording.actions)
  queueIsRecording,\* actionQueue === recording.actions (array identity)
  isRunningRef,    \* isRunningRef.current
  effectPending,   \* a dependency of the running-actions effect changed
  timer,           \* -1: no watchdog armed; else seconds since it was armed
  inflight,        \* promises awaited by processNextAction / the confirm branch
  execCount,       \* history: per queue index, the non-sleep executions resolved in this pass
  orderOK,         \* history: no execution resolved for an index below an earlier one
  skipped,         \* history: a skip command was given in this playback
  elapsed,         \* history: seconds in RUNNING / WAITING_CONFIRM since the last state change
  cmds,            \* history: number of key presses
  restartIdle,     \* history: restart was the last key the handler acted on
  rlsFile,         \* codec: the RecordingFile to export
  rlsText,         \* codec: the text of the file on disk
  rlsParsed,       \* codec: what parseRlsActionsFile returned (ok: it did not throw)
  codecPc,         \* codec: file, text or parsed
  isRecording,     \* RecordingManager.isRecording
  actionsRef,      \* RecordingManager.actions: reference of the array
  headerRef,       \* RecordingManager.header: reference of the object
  heap,            \* the arrays and objects the references stand for
  returned,        \* the objects returned by stop(), with their content at that time
  lastOp,          \* history: the last method called on the manager
  recOps,          \* history: number of calls on the manager
  uiIsRecording,   \* Explorer: useState(false), the isRecording indicator
  pendingSet,      \* Explorer: the store writes awaited, each with the isRecording its callbacks closed over
  pendingExport,   \* Explorer: number of writeFile calls awaited
  refreshing,      \* Explorer: the refresh effect waits for the listener's value
  inputs,          \* history: number of keys and submits given to Explorer
  currentDbData,   \* diff: the Value fetched from the store (original)
  newItem,         \* diff: the Value parsed from the edited file (modified)
  calculatedDiffs, \* diff: what calculateDiff returned
  diffPc,          \* diff: unused, input (nothing computed yet) or computed
  diffEdits,       \* history: number of edits made to the file
  diffs,           \* diff: useState<DiffChange[]>, the changes under review
  mode,            \* diff: the mode of Explorer
  statusMessage,   \* diff: the message shown
  updatePayload,   \* diff: the payload of the update awaited, or JUndefined
  stored,          \* diff: the payloads the store has written
  execAction,      \* exec: the ExecAction given to expandExecAction
  execStore,       \* exec: the store it reads
  generatedActions,\* exec: what expandExecAction resolved with
  execPc           \* exec: unused, awaited or resolved

playbackVars == <<header, recording, db, state, currentIndex, loopCount, actionQueue, queueIsRecording, isRunningRef, effectPending, timer, inflight, execCount, orderOK, skipped, elapsed, cmds, restartIdle>>

codecVars == <<rlsFile, rlsText, rlsParsed, codecPc>>

recorderVars == <<isRecording, actionsRef, headerRef, heap, returned, lastOp, recOps, uiIsRecording, pendingSet, pendingExport, refreshing, inputs>>

diffVars == <<currentDbData, newItem, calculatedDiffs, diffPc, diffEdits, diffs, mode, statusMessage, updatePayload, stored>>

execVars == <<execAction, execStore, generatedActions, execPc>>

vars == <<playbackVars, codecVars, recorderVars, diffVars, execVars>>

DEFAULT_HEADER == [playMode |-> "normal", confirmActions |-> TRUE, autoSleepMs |-> 500, timeoutSeconds |-> 30]

\* what parseRlsActionsFile yields when it throws
ParseError == [ok |-> FALSE, file |-> <<>>]

\* the codec is not in use
CodecUnused ==
  /\ rlsFile = [header |-> DEFAULT_HEADER, actions |-> <<>>]
  /\ rlsText = <<>>
  /\ rlsParsed = ParseError
  /\ codecPc = "unused"

\* new RecordingManager(), with no call made on it
RecorderUnused ==
  /\ isRecording = FALSE
  /\ heap = << <<>>, DEFAULT_HEADER >>
  /\ actionsRef = 1
  /\ headerRef = 2
  /\ returned = {}
  /\ lastOp = "new"
  /\ recOps = 0
  /\ uiIsRecording = FALSE
  /\ pendingSet = <<>>
  /\ pendingExport = 0
  /\ refreshing = FALSE
  /\ inputs = 0

\* the diff review is not in use
DiffUnused ==
  /\ currentDbData = [t |-> "null", v |-> <<>>]
  /\ newItem = [t |-> "null", v |-> <<>>]
  /\ calculatedDiffs = <<>>
  /\ diffPc = "unused"
  /\ diffEdits = 0
  /\ diffs = <<>>
  /\ mode = "BROWSE"
  /\ statusMessage = ""
  /\ updatePayload = [t |-> "undefined", v |-> <<>>]
  /\ stored = <<>>

\* no exec action is expanded outside a playback
ExecUnused ==
  /\ execAction = [type |-> "exec", path |-> <<>>, targetExpr |-> "", actionExpr |-> ""]
  /\ execStore = <<>>
  /\ generatedActions = <<>>
  /\ execPc = "unused"

totalActions == Len(actionQueue)

HasAction(q, i) == i >= 0 /\ i < Len(q)

ActionAt(q, i) == q[i + 1]

NoExecutions == [i \in 0..MaxLen |-> 0]

hist == <<execCount, orderOK, skipped>>

Init ==
  /\ header \in Headers
  /\ recording \in Recordings
  /\ db \in InitStores
  /\ state = "PAUSED"
  /\ currentIndex = 0
  /\ loopCount = 0
  /\ actionQueue = recording
  /\ queueIsRecording = TRUE
  /\ isRunningRef = FALSE
  /\ effectPending = FALSE
  /\ timer = -1
  /\ inflight = <<>>
  /\ execCount = NoExecutions
  /\ orderOK = TRUE
  /\ skipped = FALSE
  /\ elapsed = 0
  /\ cmds = 0
  /\ restartIdle = FALSE
  /\ CodecUnused
  /\ RecorderUnused
  /\ DiffUnused
  /\ ExecUnused


\* ------------------------------------------------------------ helpers
Min(a, b) == IF a < b THEN a ELSE b

RemoveAt(s, n) == SubSeq(s, 1, n - 1) \o SubSeq(s, n + 1, Len(s))

\* [...q].splice(i, 1, ...new): entry i (0-based) replaced by the entries of new
Splice(q, i, new) == SubSeq(q, 1, i) \o new \o SubSeq(q, i + 2, Len(q))

\* mutant: the watchdog is armed for RUNNING only
TimeoutEffect_runningOnly(s) ==
  IF s = state THEN timer
  ELSE IF s = "RUNNING" THEN 0 ELSE -1

\* The watchdog effect: its cleanup clears the timer of the previous state,
\* and a new timer is set when the new state is RUNNING or WAITING_CONFIRM.
\* The effect only runs when state changed.
TimeoutEffect(s) ==
  IF s = state THEN timer
  ELSE IF s \in {"RUNNING", "WAITING_CONFIRM"} THEN 0 ELSE -1

\* One commit of React state: the new values of state, currentIndex and
\* actionQueue (qFresh: the array set is not the one already held).
Commit(s, i, q, qIsRec, qFresh) ==
  /\ state' = s
  /\ currentIndex' = i
  /\ actionQueue' = q
  /\ queueIsRecording' = qIsRec
  /\ effectPending' = (s # state \/ i # currentIndex \/ qFresh)
  /\ timer' = TimeoutEffect(s)
  /\ elapsed' = IF s # state THEN 0 ELSE elapsed

NoCommit ==
  /\ effectPending' = FALSE
  /\ UNCHANGED <<state, currentIndex, actionQueue, queueIsRecording, timer, elapsed>>

\* mutant: delete actions are not gated
needsConfirmation_editOnly(action) ==
  IF ~header.confirmActions THEN FALSE
  ELSE action.type = "edit"

needsConfirmation(action) ==
  IF ~header.confirmActions THEN FALSE
  ELSE action.type = "edit" \/ action.type = "delete"

\* mutant: a get clears the key it reads
StoreAfter_getWrites(action, store) ==
  CASE action.type = "edit" -> [store EXCEPT ![action.key] = action.value]
    [] action.type \in {"delete", "get"} -> [store EXCEPT ![action.key] = Null]
    [] OTHER -> store

\* The effect of a resolved executeAction on the store
StoreAfter(action, store) ==
  CASE action.type = "edit" -> [store EXCEPT ![action.key] = action.value]
    [] action.type = "delete" -> [store EXCEPT ![action.key] = Null]
    [] OTHER -> store

\* executeAction awaits the store for edit, delete and get; a sleep awaits a
\* timer, which cannot reject; the exec case returns without awaiting.
CanReject(action) == action.type \in {"edit", "delete", "get"}

\* --------------------------------------------------------- exec expansion
\* The expressions are named; each name stands for a JavaScript expression
\* with the outcome given here.  Paths and keys are texts, a child's fields
\* are one of Vals.

\* new Function("fields", "key", `return (${targetExpr});`)(fields, key):
\* <<result>>, or <<>> when the call throws
EvalTarget(expr, fields, key) ==
  CASE expr = "isStale" -> <<fields = "stale">>
    [] expr = "always" -> <<TRUE>>
    [] expr = "throwsOnOk" -> IF fields = "ok" THEN <<>> ELSE <<TRUE>>
    [] OTHER -> <<FALSE>>

\* new Function("fields", "key", actionExpr)(fields, key): what the call
\* returned (items: the elements when it is an array), or that it threw
EvalAction(expr, fields, key) ==
  LET Returned(items) == [threw |-> FALSE, isArray |-> TRUE, items |-> items]
      Str(text) == [t |-> "str", v |-> text]
      Num(n) == [t |-> "num", v |-> <<n>>]
  IN CASE expr = "delete" -> Returned(<<"DELETE", Str(key)>>)
       [] expr = "setOk" -> Returned(<<"SET", Str(key), "ok">>)
       [] expr = "deleteArchived" -> Returned(<<"DELETE", Str(<<"/", "o", "l", "d", "/">> \o key)>>)
       [] expr = "setNoValue" -> Returned(<<"SET", Str(key)>>)
       [] expr = "operationOnly" -> Returned(<<"DELETE">>)
       [] expr = "move" -> Returned(<<"MOVE", Str(key), "ok">>)
       [] expr = "numberKey" -> Returned(<<"DELETE", Num(1)>>)
       [] expr = "throwsOnStale" ->
            IF fields = "stale" THEN [threw |-> TRUE, isArray |-> FALSE, items |-> <<>>]
            ELSE Returned(<<"DELETE", Str(key)>>)
       [] OTHER -> [threw |-> FALSE, isArray |-> FALSE, items |-> <<>>]

\* mutant: every key is taken as relative to the exec path
FullKey_relative(path, k) == path \o <<"/">> \o k

FullKey(path, k) ==
  IF k # <<>> /\ k[1] = "/" THEN k ELSE path \o <<"/">> \o k

\* mutant: a predicate that throws counts as a match
GeneratedFor_throwMatches(action, fields, key) ==
  LET isTarget == EvalTarget(action.targetExpr, fields, key)
      result == EvalAction(action.actionExpr, fields, key)
  IN IF isTarget # <<>> /\ ~isTarget[1] THEN <<>>
     ELSE IF result.threw \/ ~result.isArray \/ Len(result.items) < 2 THEN <<>>
     ELSE IF result.items[2].t # "str" THEN <<>>
     ELSE IF result.items[1] = "DELETE"
          THEN <<[type |-> "delete", key |-> FullKey(action.path, result.items[2].v)]>>
     ELSE IF result.items[1] = "SET" /\ Len(result.items) >= 3
          THEN <<[type |-> "edit", key |-> FullKey(action.path, result.items[2].v), value |-> result.items[3]]>>
     ELSE <<>>

\* the body of the loop over the children, for one child.  isTarget stays
\* false when the predicate throws; actionKey.startsWith throws when the
\* key returned is not a string, inside the try block as the transform is
GeneratedFor(action, fields, key) ==
  LET isTarget == EvalTarget(action.targetExpr, fields, key)
      result == EvalAction(action.actionExpr, fields, key)
  IN IF isTarget = <<>> \/ ~isTarget[1] THEN <<>>
     ELSE IF result.threw \/ ~result.isArray \/ Len(result.items) < 2 THEN <<>>
     ELSE IF result.items[2].t # "str" THEN <<>>
     ELSE IF result.items[1] = "DELETE"
          THEN <<[type |-> "delete", key |-> FullKey(action.path, result.items[2].v)]>>
     ELSE IF result.items[1] = "SET" /\ Len(result.items) >= 3
          THEN <<[type |-> "edit", key |-> FullKey(action.path, result.items[2].v), value |-> result.items[3]]>>
     ELSE <<>>

RECURSIVE ExpandFrom(_, _, _)
ExpandFrom(action, store, n) ==
  IF n > Len(Children) THEN <<>>
  ELSE LET key == Children[n]
           fields == store[ChildPath(key)] IN
       (IF fields = Null THEN <<>> ELSE GeneratedFor(action, fields, key))
         \o ExpandFrom(action, store, n + 1)

expandExecAction(action, store) ==
  IF action.path # UsersPath THEN <<>>
  ELSE IF \A p \in Paths : store[p] = Null THEN <<>>
  ELSE ExpandFrom(action, store, 1)

\* ------------------------------------------------------ commands (keys)
\* One action per branch of the useInput handler; keys that the handler
\* treats alike (y and return, n and escape, q and escape) share an action.

startPlayback ==
  /\ isRunningRef' = TRUE
  /\ Commit("RUNNING", currentIndex, actionQueue, queueIsRecording, FALSE)

pausePlayback ==
  /\ isRunningRef' = FALSE
  /\ Commit("PAUSED", currentIndex, actionQueue, queueIsRecording, FALSE)

\* mutant: the watchdog and the stop key pause the playback
stopPlayback_pauses ==
  /\ isRunningRef' = FALSE
  /\ Commit("PAUSED", currentIndex, actionQueue, queueIsRecording, FALSE)

stopPlayback ==
  /\ isRunningRef' = FALSE
  /\ Commit("STOPPED", currentIndex, actionQueue, queueIsRecording, FALSE)

Pressed ==
  /\ ~effectPending
  /\ cmds < MaxCmds
  /\ cmds' = cmds + 1
  /\ UNCHANGED <<codecVars, recorderVars, diffVars, execVars>>

\* "r" in COMPLETED or STOPPED
InputRestart ==
  /\ Pressed
  /\ state \in {"COMPLETED", "STOPPED"}
  /\ loopCount' = 0
  /\ Commit("PAUSED", 0, recording, TRUE, ~queueIsRecording)
  /\ execCount' = NoExecutions
  /\ orderOK' = TRUE
  /\ skipped' = FALSE
  /\ restartIdle' = TRUE
  /\ UNCHANGED <<header, recording, db, isRunningRef, inflight>>

\* "y" or return in WAITING_CONFIRM
InputConfirm ==
  /\ Pressed
  /\ state = "WAITING_CONFIRM"
  /\ IF HasAction(actionQueue, currentIndex)
     THEN LET action == ActionAt(actionQueue, currentIndex) IN
          /\ Commit("RUNNING", currentIndex, actionQueue, queueIsRecording, FALSE)
          /\ inflight' = Append(inflight, [kind |-> "confirm", phase |-> "op", action |-> action, index |-> currentIndex, queue |-> <<>>])
     ELSE NoCommit /\ UNCHANGED <<inflight>>
  /\ restartIdle' = FALSE
  /\ UNCHANGED <<header, recording, db, loopCount, isRunningRef, hist>>

\* mutant: declining executes the action as confirming does
InputDecline_executes ==
  /\ Pressed
  /\ state = "WAITING_CONFIRM"
  /\ Commit("RUNNING", currentIndex + 1, actionQueue, queueIsRecording, FALSE)
  /\ db' = IF HasAction(actionQueue, currentIndex) THEN StoreAfter(ActionAt(actionQueue, currentIndex), db) ELSE db
  /\ restartIdle' = FALSE
  /\ UNCHANGED <<header, recording, loopCount, isRunningRef, inflight, hist>>

\* "n" or escape in WAITING_CONFIRM
InputDecline ==
  /\ Pressed
  /\ state = "WAITING_CONFIRM"
  /\ Commit("RUNNING", currentIndex + 1, actionQueue, queueIsRecording, FALSE)
  /\ restartIdle' = FALSE
  /\ UNCHANGED <<header, recording, db, loopCount, isRunningRef, inflight, hist>>

\* space in PAUSED or RUNNING
InputSpace ==
  /\ Pressed
  /\ state \in {"PAUSED", "RUNNING"}
  /\ IF state = "PAUSED" THEN startPlayback ELSE pausePlayback
  /\ restartIdle' = FALSE
  /\ UNCHANGED <<header, recording, db, loopCount, inflight, hist>>

\* "q" or escape in PAUSED or RUNNING
InputStop ==
  /\ Pressed
  /\ state \in {"PAUSED", "RUNNING"}
  /\ stopPlayback
  /\ restartIdle' = FALSE
  /\ UNCHANGED <<header, recording, db, loopCount, inflight, hist>>

\* mutant: the skip is not clamped to the end of the queue
InputSkip_unclamped ==
  /\ Pressed
  /\ state \in {"PAUSED", "RUNNING"}
  /\ Commit(state, currentIndex + 1, actionQueue, queueIsRecording, FALSE)
  /\ skipped' = TRUE
  /\ restartIdle' = FALSE
  /\ UNCHANGED <<header, recording, db, loopCount, isRunningRef, inflight, execCount, orderOK>>

\* "s" in PAUSED or RUNNING
InputSkip ==
  /\ Pressed
  /\ state \in {"PAUSED", "RUNNING"}
  /\ Commit(state, Min(currentIndex + 1, totalActions - 1), actionQueue, queueIsRecording, FALSE)
  /\ skipped' = TRUE
  /\ restartIdle' = FALSE
  /\ UNCHANGED <<header, recording, db, loopCount, isRunningRef, inflight, execCount, orderOK>>

\* "q" in WAITING_CONFIRM: the WAITING_CONFIRM branch returns without
\* reaching the stop control
InputQuitWhileConfirm ==
  /\ Pressed
  /\ state = "WAITING_CONFIRM"
  /\ NoCommit
  /\ UNCHANGED <<header, recording, db, loopCount, isRunningRef, inflight, hist, restartIdle>>


\* "s" in WAITING_CONFIRM, COMPLETED or STOPPED: the branch of the state
\* returns before the skip control is reached
InputSkipIgnored ==
  /\ Pressed
  /\ state \in {"WAITING_CONFIRM", "COMPLETED", "STOPPED"}
  /\ NoCommit
  /\ UNCHANGED <<header, recording, db, loopCount, isRunningRef, inflight, hist, restartIdle>>

\* "r" in PAUSED, RUNNING or WAITING_CONFIRM: no control matches the key
InputRestartIgnored ==
  /\ Pressed
  /\ state \in {"PAUSED", "RUNNING", "WAITING_CONFIRM"}
  /\ NoCommit
  /\ UNCHANGED <<header, recording, db, loopCount, isRunningRef, inflight, hist, restartIdle>>

\* --------------------------- the running-actions effect, processNextAction
EffectRuns ==
  /\ effectPending
  /\ UNCHANGED <<header, recording, db, cmds, isRunningRef, restartIdle, codecVars, recorderVars, diffVars, execVars>>

Processing == EffectRuns /\ state = "RUNNING" /\ isRunningRef

\* the effect's condition is false: processNextAction is not called
EffectIdle ==
  /\ EffectRuns
  /\ ~(state = "RUNNING" /\ isRunningRef)
  /\ NoCommit
  /\ UNCHANGED <<loopCount, inflight, hist>>

\* mutant: the queue is not reset for the next pass
ProcessLoop_keepsQueue ==
  /\ Processing
  /\ currentIndex >= totalActions
  /\ header.playMode = "loop"
  /\ loopCount < MaxLoops
  /\ loopCount' = loopCount + 1
  /\ Commit(state, 0, actionQueue, queueIsRecording, FALSE)
  /\ execCount' = NoExecutions
  /\ orderOK' = TRUE
  /\ UNCHANGED <<inflight, skipped>>

\* past the end of the queue, playMode loop
ProcessLoop ==
  /\ Processing
  /\ currentIndex >= totalActions
  /\ header.playMode = "loop"
  /\ loopCount < MaxLoops
  /\ loopCount' = loopCount + 1
  /\ Commit(state, 0, recording, TRUE, ~queueIsRecording)
  /\ execCount' = NoExecutions
  /\ orderOK' = TRUE
  /\ UNCHANGED <<inflight, skipped>>

\* past the end of the queue, playMode normal
ProcessCompleted ==
  /\ Processing
  /\ currentIndex >= totalActions
  /\ header.playMode # "loop"
  /\ Commit("COMPLETED", currentIndex, actionQueue, queueIsRecording, FALSE)
  /\ UNCHANGED <<loopCount, inflight, hist>>

\* actionQueue[currentIndex] is undefined
ProcessNoAction ==
  /\ Processing
  /\ currentIndex < totalActions
  /\ ~HasAction(actionQueue, currentIndex)
  /\ NoCommit
  /\ UNCHANGED <<loopCount, inflight, hist>>

\* an exec action: expandExecAction is awaited
ProcessExec ==
  /\ Processing
  /\ HasAction(actionQueue, currentIndex)
  /\ LET action == ActionAt(actionQueue, currentIndex) IN
     /\ action.type = "exec"
     /\ inflight' = Append(inflight, [kind |-> "expand", phase |-> "op", action |-> action, index |-> currentIndex, queue |-> actionQueue])
  /\ NoCommit
  /\ UNCHANGED <<loopCount, hist>>

\* an action that needs confirmation
ProcessConfirmGate ==
  /\ Processing
  /\ HasAction(actionQueue, currentIndex)
  /\ LET action == ActionAt(actionQueue, currentIndex) IN
     /\ action.type # "exec"
     /\ needsConfirmation(action)
  /\ Commit("WAITING_CONFIRM", currentIndex, actionQueue, queueIsRecording, FALSE)
  /\ UNCHANGED <<loopCount, inflight, hist>>

\* any other action: executeAction is awaited
ProcessExecute ==
  /\ Processing
  /\ HasAction(actionQueue, currentIndex)
  /\ LET action == ActionAt(actionQueue, currentIndex) IN
     /\ action.type # "exec"
     /\ ~needsConfirmation(action)
     /\ inflight' = Append(inflight, [kind |-> "process", phase |-> "op", action |-> action, index |-> currentIndex, queue |-> <<>>])
  /\ NoCommit
  /\ UNCHANGED <<loopCount, hist>>

\* ------------------------------------------- settling of awaited promises
Settles(n, kind, phase) ==
  /\ ~effectPending
  /\ inflight[n].kind = kind
  /\ inflight[n].phase = phase
  /\ UNCHANGED <<header, recording, loopCount, skipped, cmds, restartIdle, codecVars, recorderVars, diffVars, execVars>>

\* history: executeAction resolved for the action captured at op.index
MaxDone == IF \E i \in DOMAIN execCount : execCount[i] > 0
           THEN CHOOSE i \in DOMAIN execCount : execCount[i] > 0 /\ \A j \in DOMAIN execCount : execCount[j] > 0 => j <= i
           ELSE -1

Executed(op) ==
  IF op.action.type = "sleep"
  THEN UNCHANGED <<execCount, orderOK>>
  ELSE /\ execCount' = [execCount EXCEPT ![op.index] = @ + 1]
       /\ orderOK' = (orderOK /\ op.index >= MaxDone)

NotExecuted == UNCHANGED <<execCount, orderOK>>

\* expandExecAction resolved: the closure's queue is spliced and set
ExpandResolved ==
  \E n \in 1..Len(inflight) :
    /\ Settles(n, "expand", "op")
    /\ LET op == inflight[n]
           newActions == expandExecAction(op.action, db) IN
       Commit(state, currentIndex, Splice(op.queue, op.index, newActions), FALSE, TRUE)
    /\ inflight' = RemoveAt(inflight, n)
    /\ NotExecuted
    /\ UNCHANGED <<db, isRunningRef>>

\* expandExecAction rejected (the read failed)
ExpandRejected ==
  \E n \in 1..Len(inflight) :
    /\ Settles(n, "expand", "op")
    /\ Commit("PAUSED", currentIndex, actionQueue, queueIsRecording, FALSE)
    /\ isRunningRef' = FALSE
    /\ inflight' = RemoveAt(inflight, n)
    /\ NotExecuted
    /\ UNCHANGED <<db>>

\* executeAction of processNextAction resolved
ExecuteResolved ==
  \E n \in 1..Len(inflight) :
    /\ Settles(n, "process", "op")
    /\ db' = StoreAfter(inflight[n].action, db)
    /\ Executed(inflight[n])
    /\ IF header.autoSleepMs > 0
       THEN /\ inflight' = [inflight EXCEPT ![n].phase = "autoSleep"]
            /\ NoCommit
       ELSE /\ inflight' = RemoveAt(inflight, n)
            /\ Commit(state, currentIndex + 1, actionQueue, queueIsRecording, FALSE)
    /\ UNCHANGED <<isRunningRef>>

\* the auto sleep after an action elapsed
AutoSleepElapsed ==
  \E n \in 1..Len(inflight) :
    /\ Settles(n, "process", "autoSleep")
    /\ inflight' = RemoveAt(inflight, n)
    /\ Commit(state, currentIndex + 1, actionQueue, queueIsRecording, FALSE)
    /\ NotExecuted
    /\ UNCHANGED <<db, isRunningRef>>

\* mutant: the catch block stops the playback
ExecuteRejected_stops ==
  \E n \in 1..Len(inflight) :
    /\ Settles(n, "process", "op")
    /\ CanReject(inflight[n].action)
    /\ Commit("STOPPED", currentIndex, actionQueue, queueIsRecording, FALSE)
    /\ isRunningRef' = FALSE
    /\ inflight' = RemoveAt(inflight, n)
    /\ NotExecuted
    /\ UNCHANGED <<db>>

\* executeAction of processNextAction rejected (the store failed)
ExecuteRejected ==
  \E n \in 1..Len(inflight) :
    /\ Settles(n, "process", "op")
    /\ CanReject(inflight[n].action)
    /\ Commit("PAUSED", currentIndex, actionQueue, queueIsRecording, FALSE)
    /\ isRunningRef' = FALSE
    /\ inflight' = RemoveAt(inflight, n)
    /\ NotExecuted
    /\ UNCHANGED <<db>>

\* executeAction of the confirm branch resolved
ConfirmResolved ==
  \E n \in 1..Len(inflight) :
    /\ Settles(n, "confirm", "op")
    /\ db' = StoreAfter(inflight[n].action, db)
    /\ Executed(inflight[n])
    /\ inflight' = RemoveAt(inflight, n)
    /\ Commit(state, currentIndex + 1, actionQueue, queueIsRecording, FALSE)
    /\ UNCHANGED <<isRunningRef>>

\* executeAction of the confirm branch rejected
ConfirmRejected ==
  \E n \in 1..Len(inflight) :
    /\ Settles(n, "confirm", "op")
    /\ CanReject(inflight[n].action)
    /\ Commit("PAUSED", currentIndex, actionQueue, queueIsRecording, FALSE)
    /\ isRunningRef' = FALSE
    /\ inflight' = RemoveAt(inflight, n)
    /\ NotExecuted
    /\ UNCHANGED <<db>>

\* ------------------------------------------------------------- watchdog
TimerDue == timer >= 0 /\ timer >= header.timeoutSeconds

\* one second passes in RUNNING or WAITING_CONFIRM; a timer that is due
\* fires before time moves on
Tick ==
  /\ ~effectPending
  /\ state \in {"RUNNING", "WAITING_CONFIRM"}
  /\ ~TimerDue
  /\ elapsed <= header.timeoutSeconds
  /\ timer' = IF timer >= 0 THEN timer + 1 ELSE timer
  /\ elapsed' = elapsed + 1
  /\ UNCHANGED <<header, recording, db, state, currentIndex, loopCount, actionQueue, queueIsRecording, isRunningRef, effectPending, inflight, hist, cmds, restartIdle, codecVars, recorderVars, diffVars, execVars>>

\* the setTimeout callback of the watchdog effect
TimeoutFires ==
  /\ ~effectPending
  /\ TimerDue
  /\ stopPlayback
  /\ UNCHANGED <<header, recording, db, loopCount, inflight, hist, cmds, restartIdle, codecVars, recorderVars, diffVars, execVars>>

Next ==
  \/ InputRestart
  \/ InputConfirm
  \/ InputDecline
  \/ InputSpace
  \/ InputStop
  \/ InputSkip
  \/ InputQuitWhileConfirm
  \/ InputSkipIgnored
  \/ InputRestartIgnored
  \/ EffectIdle
  \/ ProcessLoop
  \/ ProcessCompleted
  \/ ProcessNoAction
  \/ ProcessExec
  \/ ProcessConfirmGate
  \/ ProcessExecute
  \/ ExpandResolved
  \/ ExpandRejected
  \/ ExecuteResolved
  \/ AutoSleepElapsed
  \/ ExecuteRejected
  \/ ConfirmResolved
  \/ ConfirmRejected
  \/ Tick
  \/ TimeoutFires

Spec == Init /\ [][Next]_vars

\* ---- a playback that is started and then left alone
\* playMode normal, confirmActions off
LiveInit ==
  /\ Init
  /\ header.playMode = "normal"
  /\ ~header.confirmActions

\* what the host's event loop runs without any key: the effects, the
\* continuations of the awaited operations (the store does not fail) and
\* the watchdog timer
Completions ==
  \/ EffectIdle
  \/ ProcessCompleted
  \/ ProcessExec
  \/ ProcessExecute
  \/ ExpandResolved
  \/ ExecuteResolved
  \/ AutoSleepElapsed
  \/ Tick
  \/ TimeoutFires

\* the start command is the only key
LiveNext ==
  \/ cmds = 0 /\ InputSpace
  \/ Completions

\* the event loop does not starve a callback that is ready
LiveSpec == LiveInit /\ [][LiveNext]_vars /\ WF_vars(Completions)

TypeOK ==
  /\ state \in {"PAUSED", "RUNNING", "WAITING_CONFIRM", "COMPLETED", "STOPPED"}
  /\ currentIndex \in Int
  /\ loopCount \in 0..MaxLoops
  /\ timer \in -1..header.timeoutSeconds
  /\ elapsed \in 0..header.timeoutSeconds
  /\ \A i \in DOMAIN execCount : execCount[i] \in Nat
  /\ cmds \in 0..MaxCmds
  /\ restartIdle \in BOOLEAN


\* the playback engine is not in use
PlaybackUnused ==
  /\ header = DEFAULT_HEADER
  /\ recording = <<>>
  /\ db = [p \in Paths |-> Null]
  /\ state = "PAUSED"
  /\ currentIndex = 0
  /\ loopCount = 0
  /\ actionQueue = <<>>
  /\ queueIsRecording = TRUE
  /\ isRunningRef = FALSE
  /\ effectPending = FALSE
  /\ timer = -1
  /\ inflight = <<>>
  /\ execCount = NoExecutions
  /\ orderOK = TRUE
  /\ skipped = FALSE
  /\ elapsed = 0
  /\ cmds = 0
  /\ restartIdle = FALSE

\* ============================================== the .rlsactions codec
\* (src/realtimesploit/App.tsx, parseRlsActionsFile and serializeRlsActions)
\* A text is a sequence of characters; a value is a record with its JSON
\* type t and its content v.

\* the characters the codec looks for
Ch ==
  [sp |-> " ", nl |-> "\n", tab |-> "\t", quote |-> "\"", backslash |-> "\\",
   whitespace |-> {" ", "\n", "\t"}]

DigitChars == <<"0", "1", "2", "3", "4", "5", "6", "7", "8", "9">>

IsDigit(c) == \E d \in DOMAIN DigitChars : DigitChars[d] = c

DigitVal(c) == (CHOOSE d \in DOMAIN DigitChars : DigitChars[d] = c) - 1

\* the literals of the format
Word ==
  [normal |-> <<"n", "o", "r", "m", "a", "l">>,
   loop |-> <<"l", "o", "o", "p">>,
   true |-> <<"t", "r", "u", "e">>,
   false |-> <<"f", "a", "l", "s", "e">>,
   null |-> <<"n", "u", "l", "l">>,
   sleep |-> <<"s", "l", "e", "e", "p">>,
   edit |-> <<"e", "d", "i", "t">>,
   delete |-> <<"d", "e", "l", "e", "t", "e">>,
   get |-> <<"g", "e", "t">>,
   exec |-> <<"e", "x", "e", "c">>]

\* String.prototype.split with a one-character separator
RECURSIVE SplitFrom(_, _, _, _)
SplitFrom(s, sep, i, cur) ==
  IF i > Len(s) THEN <<cur>>
  ELSE IF s[i] = sep THEN <<cur>> \o SplitFrom(s, sep, i + 1, <<>>)
  ELSE SplitFrom(s, sep, i + 1, Append(cur, s[i]))

split(s, sep) == SplitFrom(s, sep, 1, <<>>)

\* Array.prototype.join
RECURSIVE join(_, _)
join(parts, sep) ==
  IF parts = <<>> THEN <<>>
  ELSE IF Len(parts) = 1 THEN parts[1]
  ELSE parts[1] \o <<sep>> \o join(Tail(parts), sep)

RECURSIVE trimStart(_)
trimStart(s) == IF s # <<>> /\ s[1] \in Ch.whitespace THEN trimStart(Tail(s)) ELSE s

RECURSIVE trimEnd(_)
trimEnd(s) == IF s # <<>> /\ s[Len(s)] \in Ch.whitespace THEN trimEnd(SubSeq(s, 1, Len(s) - 1)) ELSE s

\* String.prototype.trim
trim(s) == trimEnd(trimStart(s))

\* `${n}` for an integer n
RECURSIVE NumberToString(_)
NumberToString(n) ==
  IF n < 0 THEN <<"-">> \o NumberToString(0 - n)
  ELSE IF n < 10 THEN <<DigitChars[n + 1]>>
  ELSE NumberToString(n \div 10) \o <<DigitChars[(n % 10) + 1]>>

\* the value of the longest prefix of digits of s from position i
RECURSIVE DigitsValue(_, _, _)
DigitsValue(s, i, acc) ==
  IF i > Len(s) \/ ~IsDigit(s[i]) THEN acc
  ELSE DigitsValue(s, i + 1, acc * 10 + DigitVal(s[i]))

\* parseInt(s, 10): <<n>>, or <<>> for NaN.  Leading white space is skipped,
\* a sign is accepted, and what follows the leading digits is ignored.
parseInt(s) ==
  LET t == trimStart(s)
      signed == t # <<>> /\ t[1] \in {"-", "+"}
      body == IF signed THEN Tail(t) ELSE t
  IN IF body = <<>> \/ ~IsDigit(body[1]) THEN <<>>
     ELSE IF signed /\ t[1] = "-" THEN <<0 - DigitsValue(body, 1, 0)>>
     ELSE <<DigitsValue(body, 1, 0)>>

\* ---- JSON.stringify and JSON.parse on null, booleans, integers and strings
JNull == [t |-> "null", v |-> <<>>]
JBool(b) == [t |-> "bool", v |-> <<b>>]
JNum(n) == [t |-> "num", v |-> <<n>>]
JStr(s) == [t |-> "str", v |-> s]

RECURSIVE Escape(_)
Escape(s) ==
  IF s = <<>> THEN <<>>
  ELSE (IF s[1] = Ch.quote THEN <<Ch.backslash, Ch.quote>>
        ELSE IF s[1] = Ch.backslash THEN <<Ch.backslash, Ch.backslash>>
        ELSE IF s[1] = Ch.nl THEN <<Ch.backslash, "n">>
        ELSE IF s[1] = Ch.tab THEN <<Ch.backslash, "t">>
        ELSE <<s[1]>>) \o Escape(Tail(s))

\* <<characters>> of a string literal's body, or <<>> when it is malformed
RECURSIVE Unescape(_)
Unescape(s) ==
  IF s = <<>> THEN << <<>> >>
  ELSE IF s[1] \in {Ch.quote, Ch.nl, Ch.tab} THEN <<>>
  ELSE IF s[1] = Ch.backslash
       THEN IF Len(s) < 2 \/ s[2] \notin {Ch.quote, Ch.backslash, "n", "t"} THEN <<>>
            ELSE LET rest == Unescape(SubSeq(s, 3, Len(s)))
                     c == IF s[2] = "n" THEN Ch.nl ELSE IF s[2] = "t" THEN Ch.tab ELSE s[2]
                 IN IF rest = <<>> THEN <<>> ELSE << <<c>> \o rest[1] >>
  ELSE LET rest == Unescape(Tail(s))
       IN IF rest = <<>> THEN <<>> ELSE << <<s[1]>> \o rest[1] >>

\* a mapping: its entries [k |-> key, v |-> value] in insertion order
JObj(entries) == [t |-> "obj", v |-> entries]

\* undefined, and a function (what a key of Object.prototype reads as)
JUndefined == [t |-> "undefined", v |-> <<>>]
JFunction(name) == [t |-> "function", v |-> name]

\* JSON.stringify; for undefined and for a function it returns undefined,
\* written <<"undefined">> here, which is the text of no value
RECURSIVE JSONstringify(_)
JSONstringify(value) ==
  CASE value.t = "null" -> Word.null
    [] value.t = "bool" -> IF value.v[1] THEN Word.true ELSE Word.false
    [] value.t = "num" -> NumberToString(value.v[1])
    [] value.t = "obj" ->
         <<"{">> \o join([i \in DOMAIN value.v |->
                             <<Ch.quote>> \o Escape(value.v[i].k) \o <<Ch.quote, ":">>
                               \o JSONstringify(value.v[i].v)], ",") \o <<"}">>
    [] value.t \in {"undefined", "function"} -> <<"undefined">>
    [] OTHER -> <<Ch.quote>> \o Escape(value.v) \o <<Ch.quote>>

\* the JSON grammar of an integer: -?(0|[1-9][0-9]*)
IsJSONInteger(s) ==
  LET body == IF s # <<>> /\ s[1] = "-" THEN Tail(s) ELSE s
  IN /\ body # <<>>
     /\ \A i \in 1..Len(body) : IsDigit(body[i])
     /\ (Len(body) = 1 \/ body[1] # "0")

\* JSON.parse: <<value>>, or <<>> when it throws
JSONparse(s) ==
  LET txt == trim(s)
  IN IF txt = Word.null THEN <<JNull>>
     ELSE IF txt = Word.true THEN <<JBool(TRUE)>>
     ELSE IF txt = Word.false THEN <<JBool(FALSE)>>
     ELSE IF IsJSONInteger(txt) THEN <<JNum(parseInt(txt)[1])>>
     ELSE IF Len(txt) >= 2 /\ txt[1] = Ch.quote /\ txt[Len(txt)] = Ch.quote
          THEN LET body == Unescape(SubSeq(txt, 2, Len(txt) - 1))
               IN IF body = <<>> THEN <<>> ELSE <<JStr(body[1])>>
     ELSE <<>>

\* ---- serializeRlsActions
HeaderLine(h) ==
  join(<<IF h.playMode = "normal" THEN Word.normal ELSE Word.loop,
         IF h.confirmActions THEN Word.true ELSE Word.false,
         NumberToString(h.autoSleepMs),
         NumberToString(h.timeoutSeconds)>>, Ch.sp)

\* mutant: the value of an edit is written as it is, not as JSON
ActionLine_rawValue(action) ==
  CASE action.type = "sleep" -> join(<<Word.sleep, NumberToString(action.timeMs)>>, Ch.sp)
    [] action.type = "edit" -> join(<<Word.edit, action.key, IF action.value.t = "str" THEN action.value.v ELSE JSONstringify(action.value)>>, Ch.sp)
    [] action.type = "delete" -> join(<<Word.delete, action.key>>, Ch.sp)
    [] action.type = "get" -> join(<<Word.get, action.key>>, Ch.sp)
    [] OTHER -> join(<<Word.exec, action.path, action.targetBase64, action.actionBase64>>, Ch.sp)

ActionLine(action) ==
  CASE action.type = "sleep" -> join(<<Word.sleep, NumberToString(action.timeMs)>>, Ch.sp)
    [] action.type = "edit" -> join(<<Word.edit, action.key, JSONstringify(action.value)>>, Ch.sp)
    [] action.type = "delete" -> join(<<Word.delete, action.key>>, Ch.sp)
    [] action.type = "get" -> join(<<Word.get, action.key>>, Ch.sp)
    [] OTHER -> join(<<Word.exec, action.path, action.targetBase64, action.actionBase64>>, Ch.sp)

serializeRlsActions(f) ==
  join(<<HeaderLine(f.header)>> \o [k \in 1..Len(f.actions) |-> ActionLine(f.actions[k])], Ch.nl)

\* ---- parseRlsActionsFile
\* one non-blank action line: <<action>>, or <<>> when the case throws
ParseLine(line) ==
  LET parts == split(line, Ch.sp)
      actionType == parts[1]
      has(n) == Len(parts) >= n /\ parts[n] # <<>>
  IN CASE actionType = Word.sleep ->
            LET timeMs == IF Len(parts) >= 2 THEN parseInt(parts[2]) ELSE <<>>
            IN IF timeMs = <<>> THEN <<>> ELSE <<[type |-> "sleep", timeMs |-> timeMs[1]]>>
       [] actionType = Word.edit ->
            LET valueStr == join(SubSeq(parts, 3, Len(parts)), Ch.sp)
                parsed == JSONparse(valueStr)
            IN IF ~has(2) THEN <<>>
               ELSE <<[type |-> "edit", key |-> parts[2],
                       value |-> IF parsed = <<>> THEN JStr(valueStr) ELSE parsed[1]]>>
       [] actionType = Word.delete ->
            IF ~has(2) THEN <<>> ELSE <<[type |-> "delete", key |-> parts[2]]>>
       [] actionType = Word.get ->
            IF ~has(2) THEN <<>> ELSE <<[type |-> "get", key |-> parts[2]]>>
       [] actionType = Word.exec ->
            IF ~has(2) \/ ~has(3) \/ ~has(4) THEN <<>>
            ELSE <<[type |-> "exec", path |-> parts[2], targetBase64 |-> parts[3], actionBase64 |-> parts[4]]>>
       [] OTHER -> <<>>

\* the action loop from line i on: <<actions>>, or <<>> when a line throws
RECURSIVE ParseLines(_, _)
ParseLines(lines, i) ==
  IF i > Len(lines) THEN << <<>> >>
  ELSE LET line == trim(lines[i])
       IN IF line = <<>> THEN ParseLines(lines, i + 1)
          ELSE LET action == ParseLine(line)
                   rest == IF action = <<>> THEN <<>> ELSE ParseLines(lines, i + 1)
               IN IF action = <<>> \/ rest = <<>> THEN <<>>
                  ELSE << action \o rest[1] >>

parseRlsActionsFile(content) ==
  LET lines == split(trim(content), Ch.nl)
      headerParts == split(lines[1], Ch.sp)
  IN IF Len(headerParts) < 4 THEN ParseError
     ELSE IF headerParts[1] # Word.normal /\ headerParts[1] # Word.loop THEN ParseError
     ELSE LET autoSleepMs == parseInt(headerParts[3])
              timeoutSeconds == parseInt(headerParts[4])
              actions == ParseLines(lines, 2)
          IN IF autoSleepMs = <<>> \/ timeoutSeconds = <<>> THEN ParseError
             ELSE IF actions = <<>> THEN ParseError
             ELSE [ok |-> TRUE,
                   file |-> [header |-> [playMode |-> IF headerParts[1] = Word.normal THEN "normal" ELSE "loop",
                                         confirmActions |-> (headerParts[2] = Word.true),
                                         autoSleepMs |-> autoSleepMs[1],
                                         timeoutSeconds |-> timeoutSeconds[1]],
                             actions |-> actions[1]]]

\* ---- the files and texts the codec is applied to
CodecKey == [a |-> <<"/", "a">>, b |-> <<"/", "b">>]

\* the actions drawn for a file: windows of this cycle
CodecMaster ==
  <<[type |-> "sleep", timeMs |-> 15],
    [type |-> "edit", key |-> CodecKey.a, value |-> JStr(<<"a", Ch.sp, "b">>)],
    [type |-> "delete", key |-> CodecKey.a],
    [type |-> "edit", key |-> CodecKey.b, value |-> JStr(<<"1">>)],
    [type |-> "get", key |-> CodecKey.b],
    [type |-> "exec", path |-> CodecKey.a, targetBase64 |-> <<"d", "A", "=", "=">>, actionBase64 |-> <<"e", "Q">>],
    [type |-> "edit", key |-> <<>>, value |-> JNull],
    [type |-> "edit", key |-> CodecKey.a, value |-> JNum(70)],
    [type |-> "get", key |-> <<>>],
    [type |-> "edit", key |-> CodecKey.b, value |-> JStr(<<"q", Ch.quote, Ch.backslash>>)],
    [type |-> "sleep", timeMs |-> 0],
    [type |-> "edit", key |-> CodecKey.a, value |-> JBool(TRUE)],
    [type |-> "exec", path |-> CodecKey.b, targetBase64 |-> <<>>, actionBase64 |-> <<"e", "Q">>],
    [type |-> "edit", key |-> CodecKey.b, value |-> JStr(<<>>)]>>

RlsFiles ==
  LET CodecWindow(start, len) == [k \in 1..len |-> CodecMaster[((start + k - 2) % Len(CodecMaster)) + 1]] IN
  [header : [playMode : {"normal", "loop"}, confirmActions : BOOLEAN, autoSleepMs : {0, 500}, timeoutSeconds : {30}],
   actions : {CodecWindow(start, len) : start \in 1..Len(CodecMaster), len \in 0..MaxFileLen}]

\* the text with token ti of line li replaced by the tokens new
WithTokens(text, li, ti, new) ==
  LET lines == split(text, Ch.nl)
      parts == split(lines[li], Ch.sp)
      edited == SubSeq(parts, 1, ti - 1) \o new \o SubSeq(parts, ti + 1, Len(parts))
  IN join([lines EXCEPT ![li] = join(edited, Ch.sp)], Ch.nl)

\* the line and token numbers of a text
TokenPositions(text) ==
  LET lines == split(text, Ch.nl)
  IN UNION {{<<li, ti>> : ti \in 1..Len(split(lines[li], Ch.sp))} : li \in 1..Len(lines)}

CodecInit ==
  /\ rlsFile \in RlsFiles
  /\ rlsText = <<>>
  /\ rlsParsed = ParseError
  /\ codecPc = "file"
  /\ PlaybackUnused
  /\ RecorderUnused
  /\ DiffUnused
  /\ ExecUnused

\* the recording is exported: export() and writeFile
Export ==
  /\ codecPc = "file"
  /\ rlsText' = serializeRlsActions(rlsFile)
  /\ codecPc' = "text"
  /\ UNCHANGED <<rlsFile, rlsParsed, playbackVars, recorderVars, diffVars, execVars>>

\* the file on disk is not the exported text: a token was replaced
ReplaceToken ==
  /\ codecPc = "text"
  /\ rlsText = serializeRlsActions(rlsFile)
  /\ \E p \in TokenPositions(rlsText), junk \in {<<"f", "o", "o">>, <<"7", "x">>} :
       rlsText' = WithTokens(rlsText, p[1], p[2], <<junk>>)
  /\ UNCHANGED <<rlsFile, rlsParsed, codecPc, playbackVars, recorderVars, diffVars, execVars>>

\* the file on disk is not the exported text: a token is missing
DropToken ==
  /\ codecPc = "text"
  /\ rlsText = serializeRlsActions(rlsFile)
  /\ \E p \in TokenPositions(rlsText) :
       rlsText' = WithTokens(rlsText, p[1], p[2], <<>>)
  /\ UNCHANGED <<rlsFile, rlsParsed, codecPc, playbackVars, recorderVars, diffVars, execVars>>

\* handleStartPlayback: the file is read and parsed
Load ==
  /\ codecPc = "text"
  /\ rlsParsed' = parseRlsActionsFile(rlsText)
  /\ codecPc' = "parsed"
  /\ UNCHANGED <<rlsFile, rlsText, playbackVars, recorderVars, diffVars, execVars>>

CodecNext ==
  \/ Export
  \/ ReplaceToken
  \/ DropToken
  \/ Load

CodecSpec == CodecInit /\ [][CodecNext]_vars

\* ================================================ the recording session
\* (src/realtimesploit/RecordingManager.ts)
\* Arrays and objects live in heap and are held by reference, so that the
\* object stop() returns shares what the manager still holds.

\* { ...h, ...updates }
Spread(h, updates) == [k \in DOMAIN h |-> IF k \in DOMAIN updates THEN updates[k] ELSE h[k]]

\* new RecordingManager()
RecorderInit ==
  /\ RecorderUnused
  /\ PlaybackUnused
  /\ CodecUnused
  /\ DiffUnused
  /\ ExecUnused

Called(op) ==
  /\ recOps < MaxRecOps
  /\ recOps' = recOps + 1
  /\ lastOp' = op
  /\ UNCHANGED <<uiIsRecording, pendingSet, pendingExport, refreshing, inputs, playbackVars, codecVars, diffVars, execVars>>

\* mutant: start() empties the array it holds instead of making a new one
start_sameArray ==
  /\ Called("start")
  /\ isRecording' = TRUE
  /\ heap' = Append([heap EXCEPT ![actionsRef] = <<>>], DEFAULT_HEADER)
  /\ headerRef' = Len(heap) + 1
  /\ UNCHANGED <<actionsRef, returned>>

\* mutant: start() keeps the header of the manager
start_keepsHeader ==
  /\ Called("start")
  /\ isRecording' = TRUE
  /\ heap' = Append(heap, <<>>)
  /\ actionsRef' = Len(heap) + 1
  /\ UNCHANGED <<headerRef, returned>>

start ==
  /\ Called("start")
  /\ isRecording' = TRUE
  /\ heap' = heap \o << <<>>, DEFAULT_HEADER >>
  /\ actionsRef' = Len(heap) + 1
  /\ headerRef' = Len(heap) + 2
  /\ UNCHANGED <<returned>>

\* stop(): the object returned holds this.header and this.actions
stop ==
  /\ Called("stop")
  /\ isRecording' = FALSE
  /\ returned' = returned \cup {[header |-> headerRef, actions |-> actionsRef,
                                 headerWas |-> heap[headerRef], actionsWas |-> heap[actionsRef]]}
  /\ UNCHANGED <<heap, actionsRef, headerRef>>

updateHeader ==
  /\ Called("updateHeader")
  /\ \E updates \in {[playMode |-> "loop"], [confirmActions |-> FALSE, autoSleepMs |-> 0]} :
       heap' = Append(heap, Spread(heap[headerRef], updates))
  /\ headerRef' = Len(heap) + 1
  /\ UNCHANGED <<isRecording, actionsRef, returned>>

\* this.actions.push(action) behind the isRecording guard
Push(action) ==
  /\ IF ~isRecording THEN UNCHANGED heap
     ELSE heap' = [heap EXCEPT ![actionsRef] = Append(@, action)]
  /\ UNCHANGED <<isRecording, actionsRef, headerRef, returned>>

recordEdit ==
  /\ Called("recordEdit")
  /\ \E key \in {"/users/a"}, value \in {"ok"} : Push([type |-> "edit", key |-> key, value |-> value])

recordDelete ==
  /\ Called("recordDelete")
  /\ \E key \in {"/users/b"} : Push([type |-> "delete", key |-> key])

\* mutant: recordGet without the isRecording guard
recordGet_unguarded ==
  /\ Called("recordGet")
  /\ \E key \in {"/users/a"} : heap' = [heap EXCEPT ![actionsRef] = Append(@, [type |-> "get", key |-> key])]
  /\ UNCHANGED <<isRecording, actionsRef, headerRef, returned>>

recordGet ==
  /\ Called("recordGet")
  /\ \E key \in {"/users/a"} : Push([type |-> "get", key |-> key])

addSleep ==
  /\ Called("addSleep")
  /\ \E timeMs \in {100} : Push([type |-> "sleep", timeMs |-> timeMs])

clear ==
  /\ Called("clear")
  /\ heap' = Append(heap, <<>>)
  /\ actionsRef' = Len(heap) + 1
  /\ UNCHANGED <<isRecording, headerRef, returned>>

RecorderNext ==
  \/ start
  \/ stop
  \/ updateHeader
  \/ recordEdit
  \/ recordDelete
  \/ recordGet
  \/ addSleep
  \/ clear

RecorderSpec == RecorderInit /\ [][RecorderNext]_vars

\* ======================================================== the tree diff
\* (src/realtimesploit/diffUtils.ts, and its use in Explorer)

\* ---- objects as JavaScript reads them
HasOwn(o, key) == \E i \in DOMAIN o.v : o.v[i].k = key

\* key in o: own keys and the names every object inherits from
\* Object.prototype
KeyIn(key, o) ==
  \/ HasOwn(o, key)
  \/ key \in {<<"c", "o", "n", "s", "t", "r", "u", "c", "t", "o", "r">>,
               <<"t", "o", "S", "t", "r", "i", "n", "g">>,
               <<"v", "a", "l", "u", "e", "O", "f">>}

\* o[key]
Get(o, key) ==
  IF HasOwn(o, key) THEN o.v[CHOOSE i \in DOMAIN o.v : o.v[i].k = key].v
  ELSE IF KeyIn(key, o) THEN JFunction(key)
  ELSE JUndefined

\* typeof x === "object" && x !== null
IsMapping(x) == x.t = "obj"

DiffChange(type, key, path, oldValue, newValue) ==
  [type |-> type, key |-> key, path |-> path, oldValue |-> oldValue, newValue |-> newValue, selected |-> TRUE]

RECURSIVE calculateDiff(_, _, _)
RECURSIVE DiffOfKeys(_, _, _, _)

\* mutant: a key present in both is a change whatever the two values are
DiffOfKey_noCompare(original, modified, basePath, key) ==
  LET val1 == Get(original, key)
      val2 == Get(modified, key)
      currentPath == Append(basePath, key)
  IN IF ~KeyIn(key, original)
     THEN <<DiffChange("CREATE", key, currentPath, JUndefined, val2)>>
     ELSE IF ~KeyIn(key, modified)
     THEN <<DiffChange("DELETE", key, currentPath, val1, JUndefined)>>
     ELSE IF IsMapping(val1) /\ IsMapping(val2)
     THEN calculateDiff(val1, val2, currentPath)
     ELSE <<DiffChange("EDIT", key, currentPath, val1, val2)>>

\* mutant: two values whose texts differ are one EDIT, mappings included
DiffOfKey_shallow(original, modified, basePath, key) ==
  LET val1 == Get(original, key)
      val2 == Get(modified, key)
      currentPath == Append(basePath, key)
  IN IF ~KeyIn(key, original)
     THEN <<DiffChange("CREATE", key, currentPath, JUndefined, val2)>>
     ELSE IF ~KeyIn(key, modified)
     THEN <<DiffChange("DELETE", key, currentPath, val1, JUndefined)>>
     ELSE IF JSONstringify(val1) # JSONstringify(val2)
     THEN <<DiffChange("EDIT", key, currentPath, val1, val2)>>
     ELSE <<>>

\* mutant: a changed mapping is reported itself and change by change
DiffOfKey_parentToo(original, modified, basePath, key) ==
  LET val1 == Get(original, key)
      val2 == Get(modified, key)
      currentPath == Append(basePath, key)
  IN IF ~KeyIn(key, original)
     THEN <<DiffChange("CREATE", key, currentPath, JUndefined, val2)>>
     ELSE IF ~KeyIn(key, modified)
     THEN <<DiffChange("DELETE", key, currentPath, val1, JUndefined)>>
     ELSE IF JSONstringify(val1) # JSONstringify(val2)
     THEN IF IsMapping(val1) /\ IsMapping(val2)
          THEN <<DiffChange("EDIT", key, currentPath, val1, val2)>>
                 \o calculateDiff(val1, val2, currentPath)
          ELSE <<DiffChange("EDIT", key, currentPath, val1, val2)>>
     ELSE <<>>

\* the body of the loop over allKeys, for one key
DiffOfKey(original, modified, basePath, key) ==
  LET val1 == Get(original, key)
      val2 == Get(modified, key)
      currentPath == Append(basePath, key)
  IN IF ~KeyIn(key, original)
     THEN <<DiffChange("CREATE", key, currentPath, JUndefined, val2)>>
     ELSE IF ~KeyIn(key, modified)
     THEN <<DiffChange("DELETE", key, currentPath, val1, JUndefined)>>
     ELSE IF JSONstringify(val1) # JSONstringify(val2)
     THEN IF IsMapping(val1) /\ IsMapping(val2)
          THEN calculateDiff(val1, val2, currentPath)
          ELSE <<DiffChange("EDIT", key, currentPath, val1, val2)>>
     ELSE <<>>

\* the loop over allKeys
DiffOfKeys(original, modified, basePath, keys) ==
  IF keys = <<>> THEN <<>>
  ELSE DiffOfKey(original, modified, basePath, Head(keys))
         \o DiffOfKeys(original, modified, basePath, Tail(keys))

calculateDiff(original, modified, basePath) ==
  IF ~IsMapping(original) \/ ~IsMapping(modified)
  THEN IF original # modified
       THEN <<DiffChange("EDIT",
                         IF basePath # <<>> /\ basePath[Len(basePath)] # <<>>
                         THEN basePath[Len(basePath)] ELSE <<"r", "o", "o", "t">>,
                         basePath, original, modified)>>
       ELSE <<>>
  ELSE LET keys1 == [i \in DOMAIN original.v |-> original.v[i].k]
           keys2 == [i \in DOMAIN modified.v |-> modified.v[i].k]
           \* new Set([...keys1, ...keys2]) in iteration order
           allKeys == keys1 \o SelectSeq(keys2, LAMBDA k : \A i \in DOMAIN keys1 : keys1[i] # k)
       IN DiffOfKeys(original, modified, basePath, allKeys)

\* ---- the values the diff is applied to
DiffKey == [a |-> <<"a">>, b |-> <<"b">>, c |-> <<"c", "o", "n", "s", "t", "r", "u", "c", "t", "o", "r">>]

Entry(key, value) == [k |-> key, v |-> value]

\* the data shown when the edit starts
DiffSeeds ==
  {JNum(1),
   JObj(<<Entry(DiffKey.a, JNum(1)), Entry(DiffKey.b, JStr(<<"1">>))>>),
   JObj(<<Entry(DiffKey.a, JObj(<<Entry(DiffKey.a, JNum(1)), Entry(DiffKey.b, JStr(<<"1">>))>>)),
          Entry(DiffKey.c, JNum(1))>>)}

\* where the user edits the file, and what they write there
DiffPaths ==
  {<<>>, <<DiffKey.a>>, <<DiffKey.b>>, <<DiffKey.c>>, <<DiffKey.a, DiffKey.a>>, <<DiffKey.a, DiffKey.b>>}

\* the tree with value at path; a non-mapping on the way becomes a mapping
RECURSIVE PutAt(_, _, _)
PutAt(tree, path, value) ==
  IF path = <<>> THEN value
  ELSE LET o == IF IsMapping(tree) THEN tree ELSE JObj(<<>>)
           key == Head(path)
           child == IF HasOwn(o, key) THEN Get(o, key) ELSE JObj(<<>>)
           put == PutAt(child, Tail(path), value)
       IN IF HasOwn(o, key)
          THEN JObj([i \in DOMAIN o.v |-> IF o.v[i].k = key THEN Entry(key, put) ELSE o.v[i]])
          ELSE JObj(Append(o.v, Entry(key, put)))

\* the tree without the key at path
RECURSIVE DropAt(_, _)
DropAt(tree, path) ==
  IF path = <<>> \/ ~IsMapping(tree) \/ ~HasOwn(tree, Head(path)) THEN tree
  ELSE IF Len(path) = 1 THEN JObj(SelectSeq(tree.v, LAMBDA e : e.k # Head(path)))
  ELSE JObj([i \in DOMAIN tree.v |->
               IF tree.v[i].k = Head(path)
               THEN Entry(Head(path), DropAt(tree.v[i].v, Tail(path)))
               ELSE tree.v[i]])

\* the value at path, JUndefined when there is none
RECURSIVE At(_, _)
At(tree, path) ==
  IF path = <<>> THEN tree
  ELSE IF ~IsMapping(tree) \/ ~HasOwn(tree, Head(path)) THEN JUndefined
  ELSE At(Get(tree, Head(path)), Tail(path))

\* the trees that differ from tree by the order of two neighbouring keys of
\* one mapping
Reorderings(tree) ==
  LET Swap(entries, i) ==
        [n \in DOMAIN entries |->
           IF n = i THEN entries[i + 1] ELSE IF n = i + 1 THEN entries[i] ELSE entries[n]]
  IN {PutAt(tree, pi[1], JObj(Swap(At(tree, pi[1]).v, pi[2]))) :
        pi \in {qi \in DiffPaths \X (1..2) :
                  /\ IsMapping(At(tree, qi[1]))
                  /\ qi[2] < Len(At(tree, qi[1]).v)}}

\* the file after one edit by the user
Edits(tree) ==
  {PutAt(tree, path, value) : path \in DiffPaths, value \in {JNull, JNum(1), JObj(<<>>)}}
    \cup {DropAt(tree, path) : path \in DiffPaths}

DiffInit ==
  /\ currentDbData \in DiffSeeds
  /\ newItem = currentDbData
  /\ calculatedDiffs = <<>>
  /\ diffPc = "input"
  /\ diffEdits = 0
  /\ diffs = <<>>
  /\ mode = "EXTERNAL_EDIT_WAIT"
  /\ statusMessage = ""
  /\ updatePayload = JUndefined
  /\ stored = <<>>
  /\ PlaybackUnused
  /\ CodecUnused
  /\ RecorderUnused
  /\ ExecUnused

\* handleExternalEditFinish: the file is parsed, the data fetched, the
\* diff calculated and, when it is not empty, put under review.  A call
\* that follows another stands for the finish of the next external edit.
Finish(data, item) ==
  /\ diffPc \in {"input", "computed"}
  /\ currentDbData' = data
  /\ newItem' = item
  /\ calculatedDiffs' = calculateDiff(data, item, <<>>)
  /\ diffPc' = "computed"
  /\ IF calculatedDiffs' = <<>>
     THEN /\ statusMessage' = "No changes detected."
          /\ mode' = "BROWSE"
          /\ UNCHANGED diffs
     ELSE /\ diffs' = calculatedDiffs'
          /\ mode' = "DIFF_REVIEW"
          /\ statusMessage' = ""
  /\ UNCHANGED <<updatePayload, stored, playbackVars, codecVars, recorderVars, execVars>>

\* the user saved the file as it was written
FinishUnedited ==
  /\ diffPc = "input"
  /\ Finish(currentDbData, newItem)
  /\ UNCHANGED diffEdits

\* the user changed the file
FinishEdited ==
  /\ diffEdits < MaxDiffEdits
  /\ diffEdits' = diffEdits + 1
  /\ \E item \in Edits(newItem) : Finish(currentDbData, item)

\* the file, or the store, lists the keys of a mapping in another order
FinishReordered ==
  /\ diffPc = "computed"
  /\ \/ \E item \in Reorderings(newItem) : Finish(currentDbData, item)
     \/ \E data \in Reorderings(currentDbData) : Finish(data, newItem)
  /\ UNCHANGED diffEdits

\* the data was removed from the store since the edit started: the
\* snapshot does not exist
FinishRemoved ==
  /\ currentDbData # JNull
  /\ Finish(JNull, newItem)
  /\ UNCHANGED diffEdits

DiffNext ==
  \/ FinishUnedited
  \/ FinishEdited
  \/ FinishReordered
  \/ FinishRemoved

DiffSpec == DiffInit /\ [][DiffNext]_vars

\* ---- the review of the changes and applyDiffs
\* a diff is under review: handleExternalEditFinish found changes in a file
\* that the user edited once
ApplyInit ==
  /\ currentDbData \in DiffSeeds
  /\ newItem \in Edits(currentDbData)
  /\ calculatedDiffs = calculateDiff(currentDbData, newItem, <<>>)
  /\ calculatedDiffs # <<>>
  /\ diffPc = "computed"
  /\ diffEdits = 1
  /\ diffs = calculatedDiffs
  /\ mode = "DIFF_REVIEW"
  /\ statusMessage = ""
  /\ updatePayload = JUndefined
  /\ stored = <<>>
  /\ PlaybackUnused
  /\ CodecUnused
  /\ RecorderUnused
  /\ ExecUnused

\* the loop that fills updatePayload: updatePayload[relativePath] = ...
RECURSIVE PayloadOf(_, _)
PayloadOf(payload, selectedDiffs) ==
  IF selectedDiffs = <<>> THEN payload
  ELSE LET diff == Head(selectedDiffs)
           relativePath == join(diff.path, "/")
       IN PayloadOf(PutAt(payload, <<relativePath>>,
                          IF diff.type = "DELETE" THEN JNull ELSE diff.newValue),
                    Tail(selectedDiffs))

\* mutant: every change is applied, selected or not
applyDiffs_all ==
  /\ updatePayload' = PayloadOf(JObj(<<>>), diffs)
  /\ mode' = "LOADING"
  /\ statusMessage' = "Applying changes..."
  /\ UNCHANGED <<diffs, stored>>

\* applyDiffs, up to its await
applyDiffs ==
  LET selectedDiffs == SelectSeq(diffs, LAMBDA d : d.selected)
  IN IF selectedDiffs = <<>>
     THEN /\ statusMessage' = "No changes selected."
          /\ mode' = "BROWSE"
          /\ UNCHANGED <<diffs, updatePayload, stored>>
     ELSE /\ updatePayload' = PayloadOf(JObj(<<>>), selectedDiffs)
          /\ mode' = "LOADING"
          /\ statusMessage' = "Applying changes..."
          /\ UNCHANGED <<diffs, stored>>

Reviewing == UNCHANGED <<currentDbData, newItem, calculatedDiffs, diffPc, diffEdits, playbackVars, codecVars, recorderVars, execVars>>

\* a key in DIFF_REVIEW: toggle the change under the cursor, go to the
\* confirmation, or cancel
ReviewKey ==
  /\ mode = "DIFF_REVIEW"
  /\ Reviewing
  /\ \/ /\ \E diffCursor \in DOMAIN diffs :
              diffs' = [diffs EXCEPT ![diffCursor].selected = ~@]
        /\ UNCHANGED <<mode, statusMessage, updatePayload, stored>>
     \/ /\ mode' = "DIFF_APPLY_CONFIRM"
        /\ UNCHANGED <<diffs, statusMessage, updatePayload, stored>>
     \/ /\ mode' = "BROWSE"
        /\ statusMessage' = "Review cancelled. No changes applied."
        /\ UNCHANGED <<diffs, updatePayload, stored>>

\* a key in DIFF_APPLY_CONFIRM: apply, or return to the review
ConfirmKey ==
  /\ mode = "DIFF_APPLY_CONFIRM"
  /\ Reviewing
  /\ \/ applyDiffs
     \/ /\ mode' = "DIFF_REVIEW"
        /\ statusMessage' = "Returned to diff review."
        /\ UNCHANGED <<diffs, updatePayload, stored>>

\* await update(ref, updatePayload) settles: the store writes the whole
\* payload, or the call throws and nothing is written
UpdateSettles ==
  /\ mode = "LOADING"
  /\ updatePayload # JUndefined
  /\ Reviewing
  /\ updatePayload' = JUndefined
  /\ \/ /\ stored' = Append(stored, updatePayload)
        /\ diffs' = <<>>
        /\ statusMessage' = "Changes applied successfully!"
        /\ UNCHANGED mode
     \/ /\ statusMessage' = "Failed to apply changes"
        /\ mode' = "BROWSE"
        /\ UNCHANGED <<diffs, stored>>

ApplyNext ==
  \/ ReviewKey
  \/ ConfirmKey
  \/ UpdateSettles

ApplySpec == ApplyInit /\ [][ApplyNext]_vars

\* ============================================== exec expansion on its own
\* (expandExecAction, src/realtimesploit/PlaybackMode.tsx)

\* the exec actions expanded: the path read has children or does not exist
ExecActions ==
  [type : {"exec"},
   path : {UsersPath, <<"/", "n", "o", "n", "e">>},
   targetExpr : {"isStale", "always", "throwsOnOk"},
   actionExpr : {"delete", "setOk", "deleteArchived", "setNoValue", "operationOnly",
                 "move", "numberKey", "throwsOnStale", "noReturn"}]

ExecInit ==
  /\ execAction \in ExecActions
  /\ execStore \in [Paths -> Vals \cup {Null}]
  /\ generatedActions = <<>>
  /\ execPc = "awaited"
  /\ PlaybackUnused
  /\ CodecUnused
  /\ RecorderUnused
  /\ DiffUnused

\* await expandExecAction(action) resolves
Expand ==
  /\ execPc = "awaited"
  /\ generatedActions' = expandExecAction(execAction, execStore)
  /\ execPc' = "resolved"
  /\ UNCHANGED <<execAction, execStore, playbackVars, codecVars, recorderVars, diffVars>>

ExecSpec == ExecInit /\ [][Expand]_vars

\* ================================================================ claims

\* C2: at most one action execution (store round-trip, sleep, auto sleep or
\* exec expansion) is in flight at any time during playback.
C2_AtMostOneInFlight == Len(inflight) <= 1


Gated(action) == action.type \in {"edit", "delete"}

\* the effect is about to process an edit or delete while confirmActions is on
ReachesGated ==
  /\ Processing
  /\ header.confirmActions
  /\ currentIndex < totalActions
  /\ HasAction(actionQueue, currentIndex)
  /\ Gated(ActionAt(actionQueue, currentIndex))

\* a step that adds an awaited edit or delete to the promises in flight
IssuesGated ==
  /\ Len(inflight') = Len(inflight) + 1
  /\ Gated(inflight'[Len(inflight')].action)

\* C1: with confirmActions on, reaching an edit or delete in RUNNING moves
\* the engine to WAITING_CONFIRM with the store unchanged and nothing issued;
\* an edit or delete is only issued by a key press taken in WAITING_CONFIRM,
\* for the action at the current index; and the store only changes by the
\* resolution of a write issued that way.
C1_ConfirmationGate ==
  [][ /\ ReachesGated => (state' = "WAITING_CONFIRM" /\ db' = db /\ inflight' = inflight)
      /\ (header.confirmActions /\ IssuesGated) =>
            /\ state = "WAITING_CONFIRM"
            /\ cmds' = cmds + 1
            /\ inflight'[Len(inflight')].kind = "confirm"
            /\ inflight'[Len(inflight')].action = ActionAt(actionQueue, currentIndex)
      /\ (header.confirmActions /\ db' # db) =>
            \E n \in 1..Len(inflight) :
              /\ inflight[n].kind = "confirm"
              /\ db' = StoreAfter(inflight[n].action, db) ]_vars

\* C1 witness: the gate stopped at an edit or delete, nothing was issued and
\* the store is as it was at the start
C1_Witness ==
  /\ header.confirmActions
  /\ state = "WAITING_CONFIRM"
  /\ HasAction(actionQueue, currentIndex)
  /\ Gated(ActionAt(actionQueue, currentIndex))
  /\ inflight = <<>>
  /\ db \in InitStores

NoExec(actions) == \A k \in 1..Len(actions) : actions[k].type # "exec"

\* C3: a playback of a recording without exec actions, with confirmActions
\* off and without a skip command, that reached COMPLETED has executed each
\* non-sleep action exactly once, in the original order.
C3_EachActionOnceInOrder ==
  (state = "COMPLETED" /\ NoExec(recording) /\ ~header.confirmActions /\ ~skipped) =>
    /\ \A i \in 0..(Len(recording) - 1) :
         recording[i + 1].type # "sleep" => execCount[i] = 1
    /\ orderOK


ConfirmInFlightFor(i) ==
  \E n \in 1..Len(inflight) : inflight[n].kind = "confirm" /\ inflight[n].index = i

\* C4: a confirm command in WAITING_CONFIRM executes the action at the
\* current index once (no execution of it is already in flight from an
\* earlier confirm), and when that execution resolves the index advances by
\* 1 and the engine is RUNNING.
C4_ConfirmExecutesOnce ==
  [][ /\ (InputConfirm /\ HasAction(actionQueue, currentIndex)) => ~ConfirmInFlightFor(currentIndex)
      /\ ConfirmResolved => (currentIndex' = currentIndex + 1 /\ state' = "RUNNING") ]_vars

Terminal == {"COMPLETED", "STOPPED"}

\* C5: once the state is COMPLETED or STOPPED it changes only by a restart
\* command, to PAUSED.
C5_TerminalUntilRestart ==
  [][ (state \in Terminal /\ state' # state) => (InputRestart /\ state' = "PAUSED") ]_vars

\* C6: while the state stays STOPPED, no action begins and neither the
\* current index nor the action queue changes.
C6_StoppedIsQuiet ==
  [][ (state = "STOPPED" /\ state' = "STOPPED") =>
        /\ currentIndex' = currentIndex
        /\ actionQueue' = actionQueue
        /\ Len(inflight') <= Len(inflight) ]_vars

Watched == {"RUNNING", "WAITING_CONFIRM"}

\* C7: in RUNNING and WAITING_CONFIRM a watchdog is armed that counts from
\* the last state transition, the engine is never in one of these states for
\* more than header.timeoutSeconds since that transition, and the watchdog's
\* firing sets the state to STOPPED; in the other states no watchdog is armed.
C7_Watchdog ==
  /\ [](IF state \in Watched
        THEN timer = elapsed /\ elapsed <= header.timeoutSeconds
        ELSE timer = -1)
  /\ [][ TimeoutFires => (elapsed = header.timeoutSeconds /\ state' = "STOPPED") ]_vars

\* C7 witness: only the start command was given, an action was begun, and
\* the engine is STOPPED
C7_Witness == state = "STOPPED" /\ cmds = 1 /\ ~isRunningRef /\ inflight # <<>>

Rejected == ExpandRejected \/ ExecuteRejected \/ ConfirmRejected

\* C8: when the store operation of an action fails, the state becomes
\* PAUSED with isRunningRef cleared, and the index and the queue are
\* unchanged, so the same action is current on resume.
C8_StoreErrorPauses ==
  [][ Rejected =>
        /\ state' = "PAUSED"
        /\ ~isRunningRef'
        /\ currentIndex' = currentIndex
        /\ actionQueue' = actionQueue
        /\ db' = db ]_vars

\* C8 witness: only the start command was given, the first action was
\* executed, and the engine is PAUSED at the second one
C8_Witness ==
  /\ state = "PAUSED"
  /\ cmds = 1
  /\ ~isRunningRef
  /\ inflight = <<>>
  /\ execCount[0] = 1
  /\ currentIndex = 1
  /\ HasAction(actionQueue, currentIndex)

\* the stop key (q) pressed in RUNNING or WAITING_CONFIRM
StopCommand ==
  \/ state = "RUNNING" /\ InputStop
  \/ state = "WAITING_CONFIRM" /\ InputQuitWhileConfirm

\* C9: a stop command in RUNNING or WAITING_CONFIRM moves the engine to
\* STOPPED.
C9_StopStops == [][ StopCommand => state' = "STOPPED" ]_vars

LoopPass == Processing /\ currentIndex >= totalActions /\ header.playMode = "loop"

LoopPassResets ==
  /\ loopCount' = loopCount + 1
  /\ currentIndex' = 0
  /\ actionQueue' = recording
  /\ state' = "RUNNING"

\* C10 as claimed: every pass past the end of the queue in loop mode counts
\* once, resets index and queue, stays RUNNING, and the next pass starts
\* (the effect runs again).
C10_LoopPassAlwaysRestarts ==
  [][ LoopPass => (LoopPassResets /\ effectPending') ]_vars

\* C10 amended: as claimed, except that the next pass only starts when the
\* recording is not empty; for an empty recording the counter is increased
\* and no further pass starts.
C10_LoopPass ==
  [][ LoopPass =>
        /\ LoopPassResets
        /\ effectPending' = (Len(recording) > 0) ]_vars

\* C10 witness: a pass over an expanded queue ended and the next pass began
\* with the recorded actions
C10_Witness ==
  /\ header.playMode = "loop"
  /\ loopCount = 1
  /\ state = "RUNNING"
  /\ currentIndex = 0
  /\ actionQueue = recording
  /\ \E k \in 1..Len(recording) : recording[k].type = "exec"
  /\ inflight # <<>>

\* The expansion step replaced one exec entry of the queue it found by that
\* entry's expansion, computed from the store as it is at that step.
ReplacesOneExec ==
  \E k \in 0..(totalActions - 1) :
    /\ ActionAt(actionQueue, k).type = "exec"
    /\ actionQueue' = Splice(actionQueue, k, expandExecAction(ActionAt(actionQueue, k), db))

\* C11: the step that expands an exec action leaves a queue that is the old
\* queue with that one exec entry replaced by its expansion (removed when the
\* expansion is empty), every other entry unchanged and in order; the index
\* is unchanged and nothing is written to the store.
C11_ExecExpansionStep ==
  [][ ExpandResolved => ReplacesOneExec /\ currentIndex' = currentIndex /\ db' = db ]_vars

\* C12: declining in WAITING_CONFIRM advances the index by exactly 1 and
\* moves to RUNNING without executing the declined action: nothing is issued
\* to the store, and the store and the queue are unchanged.
C12_DeclineSkipsAction ==
  [][ InputDecline =>
        /\ state = "WAITING_CONFIRM"
        /\ state' = "RUNNING"
        /\ currentIndex' = currentIndex + 1
        /\ db' = db
        /\ actionQueue' = actionQueue
        /\ inflight' = inflight
        /\ execCount' = execCount ]_vars

\* the first action was declined and nothing has been executed
C12_Witness ==
  /\ state = "RUNNING"
  /\ cmds = 2
  /\ currentIndex = 1
  /\ effectPending
  /\ ~skipped
  /\ execCount = NoExecutions
  /\ inflight = <<>>
  /\ Gated(ActionAt(recording, 0))
  /\ db \in InitStores

\* what a key press leaves alone when the handler does not act on it
KeyHasNoEffect ==
  UNCHANGED <<header, recording, db, state, currentIndex, loopCount, actionQueue, isRunningRef, timer, inflight, execCount>>

C14_RestartHolds ==
  restartIdle =>
    /\ state = "PAUSED"
    /\ currentIndex = 0
    /\ loopCount = 0
    /\ actionQueue = recording

\* ---------------------------------------------------------------- codec
HasNo(ch, s) == \A i \in 1..Len(s) : s[i] # ch

\* a RecordingFile as C15 describes it: playMode normal or loop, boolean
\* confirmActions, non-negative integer header numbers, actions of the five
\* types with keys without spaces and edit values without newlines
StatedWellFormed(f) ==
  /\ f.header.playMode \in {"normal", "loop"}
  /\ f.header.confirmActions \in BOOLEAN
  /\ f.header.autoSleepMs \in Nat
  /\ f.header.timeoutSeconds \in Nat
  /\ \A k \in 1..Len(f.actions) :
       LET a == f.actions[k]
       IN /\ a.type \in {"sleep", "edit", "delete", "get", "exec"}
          /\ a.type \in {"edit", "delete", "get"} => HasNo(Ch.sp, a.key)
          /\ a.type = "exec" => HasNo(Ch.sp, a.path)
          /\ a.type = "sleep" => a.timeMs \in Nat
          /\ (a.type = "edit" /\ a.value.t = "str") => HasNo(Ch.nl, a.value.v)

\* no key, exec path or exec expression is the empty string, and the exec
\* expressions hold no space
TokensNonEmpty(f) ==
  \A k \in 1..Len(f.actions) :
    LET a == f.actions[k]
    IN /\ a.type \in {"edit", "delete", "get"} => a.key # <<>>
       /\ a.type = "exec" =>
            /\ a.path # <<>> /\ a.targetBase64 # <<>> /\ a.actionBase64 # <<>>
            /\ HasNo(Ch.sp, a.targetBase64) /\ HasNo(Ch.sp, a.actionBase64)

\* the exported text of rlsFile has been parsed
RoundTripDone == codecPc = "parsed" /\ rlsText = serializeRlsActions(rlsFile)

\* C15 as stated: decode(encode(f)) = f for every RecordingFile f with
\* playMode normal or loop, boolean confirmActions, non-negative integer
\* autoSleepMs and timeoutSeconds and any sequence of sleep, edit, delete,
\* get and exec actions whose keys contain no spaces and whose edit values
\* are JSON-serializable without newlines.
C15_RoundTripAsStated ==
  (RoundTripDone /\ StatedWellFormed(rlsFile)) => (rlsParsed.ok /\ rlsParsed.file = rlsFile)

\* C15 amended: decode(encode(f)) = f for every such RecordingFile whose
\* keys, exec paths and exec expression tokens are moreover not empty.
C15_RoundTrip ==
  (RoundTripDone /\ StatedWellFormed(rlsFile) /\ TokensNonEmpty(rlsFile)) =>
    (rlsParsed.ok /\ rlsParsed.file = rlsFile)

\* a loop-mode file with two actions, the first an edit whose value is a
\* string with a space in it, came back from the round trip
C15_Witness ==
  /\ RoundTripDone
  /\ StatedWellFormed(rlsFile) /\ TokensNonEmpty(rlsFile)
  /\ rlsFile.header.playMode = "loop"
  /\ Len(rlsFile.actions) = 2
  /\ rlsFile.actions[1].type = "edit"
  /\ rlsFile.actions[1].value.t = "str"
  /\ ~HasNo(Ch.sp, rlsFile.actions[1].value.v)
  /\ rlsParsed.ok
  /\ rlsParsed.file.actions[1].value.t = "str"

HeaderParts(text) == split(split(trim(text), Ch.nl)[1], Ch.sp)

\* the token is a decimal integer: an optional sign and digits only
IsIntegerToken(tok) ==
  LET body == IF tok # <<>> /\ tok[1] \in {"-", "+"} THEN Tail(tok) ELSE tok
  IN body # <<>> /\ \A i \in 1..Len(body) : IsDigit(body[i])

MalformedHeader(text) ==
  LET hp == HeaderParts(text)
  IN \/ Len(hp) < 4
     \/ /\ Len(hp) >= 4
        /\ \/ hp[1] \notin {Word.normal, Word.loop}
           \/ ~IsIntegerToken(hp[3])
           \/ ~IsIntegerToken(hp[4])

\* C16: decoding fails when the header line has fewer than 4 tokens, when
\* the playMode token is neither normal nor loop, or when the autoSleepMs or
\* the timeoutSeconds token is not an integer.
C16_MalformedHeaderRejected ==
  (codecPc = "parsed" /\ MalformedHeader(rlsText)) => ~rlsParsed.ok

RequiredTokens(tag) ==
  CASE tag = Word.sleep -> 2
    [] tag = Word.edit -> 3
    [] tag = Word.delete -> 2
    [] tag = Word.get -> 2
    [] tag = Word.exec -> 4
    [] OTHER -> 0

\* a non-blank action line with an unrecognized tag or fewer tokens than its
\* tag requires
MalformedActionLine(line) ==
  LET parts == split(trim(line), Ch.sp)
  IN /\ trim(line) # <<>>
     /\ \/ parts[1] \notin {Word.sleep, Word.edit, Word.delete, Word.get, Word.exec}
        \/ Len(parts) < RequiredTokens(parts[1])

\* C17: decoding fails, and yields no RecordingFile, when any non-blank
\* action line has an unrecognized tag or lacks a token its tag requires,
\* whatever the lines before it.
C17_MalformedActionRejected ==
  LET lines == split(trim(rlsText), Ch.nl)
  IN (codecPc = "parsed" /\ \E i \in 2..Len(lines) : MalformedActionLine(lines[i])) =>
       (~rlsParsed.ok /\ rlsParsed.file = <<>>)

\* ----------------------------------------------------- recording session
\* the buffer and the header of the session
Buffer == heap[actionsRef]

SessionHeader == heap[headerRef]

\* C18: the RecordingFile returned by stop() is a snapshot: no later call of
\* start, updateHeader, recordEdit, recordDelete, recordGet, addSleep, clear
\* or stop, in any order, changes the header or the actions of a
\* RecordingFile returned before.
C18_ReturnedIsSnapshot ==
  \A file \in returned :
    /\ heap[file.header] = file.headerWas
    /\ heap[file.actions] = file.actionsWas

\* a file with actions was returned, and a later session has recorded other
\* actions since
C18_Witness ==
  /\ isRecording
  /\ Buffer # <<>>
  /\ \E file \in returned :
       /\ file.actionsWas # <<>>
       /\ file.actionsWas # Buffer
       /\ file.actions # actionsRef

\* the call appended exactly one action of the type to the buffer, or, the
\* session being inactive, left the buffer alone; nothing else changed
RecordsOne(type) ==
  /\ IF isRecording
     THEN /\ Len(Buffer') = Len(Buffer) + 1
          /\ SubSeq(Buffer', 1, Len(Buffer)) = Buffer
          /\ Buffer'[Len(Buffer')].type = type
     ELSE Buffer' = Buffer
  /\ SessionHeader' = SessionHeader
  /\ isRecording' = isRecording
  /\ returned' = returned
  /\ \A file \in returned : heap'[file.header] = heap[file.header] /\ heap'[file.actions] = heap[file.actions]

\* C19: recordEdit, recordDelete and recordGet called while the session is
\* inactive leave the buffer and the header unchanged and raise no error;
\* called while it is active they append exactly one action of their type at
\* the end of the buffer and change nothing else.
C19_RecordOnlyWhileActive ==
  [][ /\ recordEdit => RecordsOne("edit")
      /\ recordDelete => RecordsOne("delete")
      /\ recordGet => RecordsOne("get") ]_vars

\* recordGet appended a get to a buffer that held an edit
C19_Witness ==
  /\ lastOp = "recordGet"
  /\ isRecording
  /\ Len(Buffer) = 2
  /\ Buffer[1].type = "edit"
  /\ Buffer[2].type = "get"

\* C20: right after start(), whatever the state before and whatever
\* updateHeader calls were made, the session is active, the buffer is empty
\* and the header equals the defaults (normal, true, 500, 30).
C20_StartResets ==
  lastOp = "start" =>
    /\ isRecording
    /\ Buffer = <<>>
    /\ SessionHeader = DEFAULT_HEADER

\* start() was called after a session that had been configured and had
\* recorded actions
C20_Witness ==
  /\ lastOp = "start"
  /\ isRecording
  /\ Buffer = <<>>
  /\ \E file \in returned : file.headerWas # DEFAULT_HEADER /\ file.actionsWas # <<>>

\* s is a prefix of t
IsPrefix(s, t) == Len(s) <= Len(t) /\ SubSeq(t, 1, Len(s)) = s

\* a call other than start(), which begins a new session
WithinSession == lastOp' # "start"

\* C21: the buffer only grows while the session is active: over any call made
\* between a start() and the next stop() the earlier contents of the buffer
\* remain a prefix of its contents, and a call made while the session is
\* inactive, other than the start() that begins a session, does not change
\* the buffer.
C21_BufferOnlyGrows ==
  [][ WithinSession =>
        /\ isRecording => IsPrefix(Buffer, Buffer')
        /\ ~isRecording => Buffer' = Buffer ]_vars

\* C22: while the session is active no call changes the header: the header
\* of an active session is the one it had when the call was made, for every
\* call other than the start() that begins a new session.
C22_HeaderFixedWhileActive ==
  [][ (isRecording /\ WithinSession) => SessionHeader' = SessionHeader ]_vars

\* ------------------------------------------------------------- tree diff
\* a Value with the key order of its mappings forgotten
RECURSIVE Norm(_)
Norm(value) ==
  IF value.t = "obj"
  THEN [t |-> "obj", v |-> [key \in {value.v[i].k : i \in DOMAIN value.v} |-> Norm(Get(value, key))]]
  ELSE value

StructurallyEqual(a, b) == Norm(a) = Norm(b)

\* CREATE and EDIT write newValue at the change's path, DELETE removes the
\* key at the path
ApplyChange(tree, change) ==
  IF change.type = "DELETE" THEN DropAt(tree, change.path)
  ELSE PutAt(tree, change.path, change.newValue)

RECURSIVE ApplyAll(_, _)
ApplyAll(tree, changes) ==
  IF changes = <<>> THEN tree
  ELSE ApplyAll(ApplyChange(tree, Head(changes)), Tail(changes))

\* C23: applying every change of diff(A, B) to A yields a tree equal to B.
C23_ApplyDiffGivesModified ==
  diffPc = "computed" =>
    StructurallyEqual(ApplyAll(currentDbData, calculatedDiffs), newItem)

\* C24: diff(A, B) is empty whenever A and B are structurally equal, so
\* diff(A, A) is empty for every Value tree A.
C24_EqualTreesNoChange ==
  (diffPc = "computed" /\ StructurallyEqual(currentDbData, newItem)) =>
    calculatedDiffs = <<>>

\* the diff of two equal trees whose nested mapping lists its keys in
\* different orders was calculated
C24_Witness ==
  /\ diffPc = "computed"
  /\ StructurallyEqual(currentDbData, newItem)
  /\ At(currentDbData, <<DiffKey.a>>).t = "obj"
  /\ At(currentDbData, <<DiffKey.a>>) # At(newItem, <<DiffKey.a>>)
  /\ calculatedDiffs = <<>>

\* the changes as a set, without the selected flag and the label
ChangeSet(changes) ==
  {[type |-> changes[i].type, path |-> changes[i].path,
    oldValue |-> Norm(changes[i].oldValue), newValue |-> Norm(changes[i].newValue)] :
     i \in DOMAIN changes}

\* C25: permuting the key order of a mapping, at any depth of either input,
\* does not change the set of changes produced (kind, path, oldValue,
\* newValue).
C25_KeyOrderInsensitive ==
  [][ (/\ diffPc = "computed"
       /\ diffPc' = "computed"
       /\ StructurallyEqual(currentDbData', currentDbData)
       /\ StructurallyEqual(newItem', newItem))
      => ChangeSet(calculatedDiffs') = ChangeSet(calculatedDiffs) ]_vars

\* the diff was calculated again, with changes at both depths, after the
\* store returned the keys of the nested mapping in the other order
C25_Witness ==
  /\ diffPc = "computed"
  /\ At(currentDbData, <<DiffKey.a>>) = JObj(<<Entry(DiffKey.b, JStr(<<"1">>)), Entry(DiffKey.a, JNum(1))>>)
  /\ \E i, j \in DOMAIN calculatedDiffs :
       Len(calculatedDiffs[i].path) = 1 /\ Len(calculatedDiffs[j].path) = 2

\* -------------------------------------------------------- exec expansion
\* the children of the exec path, by position in iteration order
ExecChildren ==
  IF execAction.path # UsersPath THEN {}
  ELSE {n \in DOMAIN Children : execStore[ChildPath(Children[n])] # Null}

ChildFields(n) == execStore[ChildPath(Children[n])]

PredicateOf(n) == EvalTarget(execAction.targetExpr, ChildFields(n), Children[n])

TransformOf(n) == EvalAction(execAction.actionExpr, ChildFields(n), Children[n])

\* the transform returned ("DELETE", k) or ("SET", k, v), k a text
WellFormedTuple(result) ==
  /\ ~result.threw
  /\ result.isArray
  /\ \/ Len(result.items) = 2 /\ result.items[1] = "DELETE" /\ result.items[2].t = "str"
     \/ Len(result.items) = 3 /\ result.items[1] = "SET" /\ result.items[2].t = "str"

\* the predicate holds and the transform returns a well-formed tuple
Contributes(n) ==
  /\ n \in ExecChildren
  /\ PredicateOf(n) = <<TRUE>>
  /\ WellFormedTuple(TransformOf(n))

\* Delete(k') or Edit(k', v), k' being path + "/" + k for a relative k
ActionOfTuple(path, items) ==
  LET k == items[2].v
      resolved == IF k # <<>> /\ Head(k) = "/" THEN k ELSE path \o <<"/">> \o k
  IN IF items[1] = "DELETE" THEN [type |-> "delete", key |-> resolved]
     ELSE [type |-> "edit", key |-> resolved, value |-> items[3]]

\* C26: exec expansion yields, in child-iteration order, exactly one action
\* per child of the exec path whose predicate holds and whose transform
\* returns a well-formed tuple, Delete(k') for ("DELETE", k) and Edit(k', v)
\* for ("SET", k, v) with k' the key resolved against the path; for
\* /users = {a: stale, b: ok}, predicate stale and transform ("DELETE", key)
\* the result is exactly [Delete("/users/a")].
C26_ExpansionYields ==
  execPc = "resolved" =>
    LET contributing == SelectSeq([n \in DOMAIN Children |-> n], Contributes)
    IN /\ generatedActions =
            [i \in DOMAIN contributing |->
               ActionOfTuple(execAction.path, TransformOf(contributing[i]).items)]
       /\ (/\ execAction.path = <<"/", "u", "s", "e", "r", "s">>
           /\ execAction.targetExpr = "isStale"
           /\ execAction.actionExpr = "delete"
           /\ execStore[<<"/", "u", "s", "e", "r", "s", "/", "a">>] = "stale"
           /\ execStore[<<"/", "u", "s", "e", "r", "s", "/", "b">>] = "ok")
          => generatedActions =
               <<[type |-> "delete", key |-> <<"/", "u", "s", "e", "r", "s", "/", "a">>]>>

\* the expansion of the example was resolved
C26_Witness ==
  /\ execPc = "resolved"
  /\ execAction = [type |-> "exec", path |-> UsersPath, targetExpr |-> "isStale", actionExpr |-> "delete"]
  /\ execStore[ChildPath(<<"a">>)] = "stale"
  /\ execStore[ChildPath(<<"b">>)] = "ok"
  /\ Len(generatedActions) = 1

\* the predicate of the child failed, or it held and the transform failed
\* or returned a result of another shape
FailsFor(n) ==
  /\ n \in ExecChildren
  /\ \/ PredicateOf(n) = <<>>
     \/ PredicateOf(n) = <<TRUE>> /\ ~WellFormedTuple(TransformOf(n))

\* the actions generated for the child: every transform drawn returns the
\* child's key or a key that ends with it
ActionsFor(n) ==
  SelectSeq(generatedActions,
            LAMBDA a : SubSeq(a.key, Len(a.key) - Len(Children[n]) + 1, Len(a.key)) = Children[n])

WrittenFor(d) ==
  [k |-> join(d.path, "/"), v |-> IF d.type = "DELETE" THEN JNull ELSE d.newValue]

EntrySet(payload) == {payload.v[n] : n \in DOMAIN payload.v}

SelectedChanges == {diffs[n] : n \in {m \in DOMAIN diffs : diffs[m].selected}}

DeselectedChanges == {diffs[n] : n \in {m \in DOMAIN diffs : ~diffs[m].selected}}

\* C28: applying a reviewed diff hands the store exactly the selected
\* changes (newValue for CREATE and EDIT, null for DELETE) and none of the
\* deselected ones; with no change selected nothing is handed over or
\* written; the store writes the payload handed over and nothing else; when
\* the update fails nothing is written and success is not reported.
C28_AppliesExactlySelected ==
  [][ /\ (updatePayload = JUndefined /\ updatePayload' # JUndefined) =>
           /\ EntrySet(updatePayload') = {WrittenFor(d) : d \in SelectedChanges}
           /\ Len(updatePayload'.v) = Cardinality(SelectedChanges)
           /\ \A d \in DeselectedChanges :
                \A e \in EntrySet(updatePayload') : e.k # join(d.path, "/")
      /\ SelectedChanges = {} => (updatePayload' = JUndefined /\ stored' = stored)
      /\ stored' # stored =>
           /\ stored' = Append(stored, updatePayload)
           /\ statusMessage' = "Changes applied successfully!"
      /\ statusMessage' = "Changes applied successfully!" => stored' # stored
      /\ statusMessage' = "Failed to apply changes" =>
           (stored' = stored /\ diffs' = diffs)
    ]_vars

\* witness: the store wrote a payload that leaves out a deselected change
C28_Witness ==
  /\ stored # <<>>
  /\ Len(stored[1].v) < Len(calculatedDiffs)
  /\ statusMessage = "Changes applied successfully!"
  /\ diffs = <<>>

\* ---------------------------------------------------------------- C29
\* C29: whenever the playback waits for a confirmation, confirmActions is
\* set and the action at the current index exists and is an edit or a
\* delete.
C29_ConfirmHoldsEditOrDelete ==
  state = "WAITING_CONFIRM" =>
    /\ header.confirmActions
    /\ HasAction(actionQueue, currentIndex)
    /\ ActionAt(actionQueue, currentIndex).type \in {"edit", "delete"}

\* ---------------------------------------------------------------- C30
\* the awaited operations that are in their auto sleep
AutoSleeping(ops) == {n \in DOMAIN ops : ops[n].phase = "autoSleep"}

\* a step in which executeAction resolved for an action other than sleep
ExecutedNonSleep == execCount' # execCount /\ execCount' # NoExecutions

\* C30: with autoSleepMs > 0, the step in which an action other than sleep
\* was executed, automatically or after a confirm, does not advance the
\* index and starts an auto sleep; no auto sleep is started after a sleep
\* action.
C30_AutoSleepAfterExecuted ==
  [][ /\ (ExecutedNonSleep /\ header.autoSleepMs > 0) =>
           /\ currentIndex' = currentIndex
           /\ Cardinality(AutoSleeping(inflight')) = Cardinality(AutoSleeping(inflight)) + 1
      /\ \A n \in AutoSleeping(inflight') : inflight'[n].action.type # "sleep"
    ]_vars

\* ---------------------------------------------------------------- C31
\* C31: the state becomes COMPLETED only from RUNNING, only with playMode
\* normal and only with the index equal to the length of the queue; with
\* playMode loop the state is never COMPLETED.
C31_CompletedOnlyAtEnd ==
  [][ /\ (state' = "COMPLETED" /\ state # "COMPLETED") =>
           /\ state = "RUNNING"
           /\ header.playMode = "normal"
           /\ currentIndex = Len(actionQueue)
           /\ currentIndex' = Len(actionQueue')
      /\ header.playMode = "loop" => state' # "COMPLETED"
    ]_vars

\* ---------------------------------------------------------------- C32
\* executeAction settled in this step for the awaited operation n
ExecutionSettles(n) ==
  /\ inflight[n].kind \in {"process", "confirm"}
  /\ inflight[n].phase = "op"
  /\ \/ inflight' = RemoveAt(inflight, n)
     \/ inflight' = [inflight EXCEPT ![n].phase = "autoSleep"]

\* the store differs from the one before at the key only, where it holds v
WritesOnly(key, v) ==
  /\ db'[key] = v
  /\ \A p \in DOMAIN db : p # key => db'[p] = db[p]

\* C32: a step in which a get or a sleep settles leaves the store as it
\* was; every change of the store during playback is the write of one
\* settled edit (its value at its key) or delete (null at its key).
C32_OnlyEditAndDeleteWrite ==
  [][ /\ (\E n \in DOMAIN inflight :
            ExecutionSettles(n) /\ inflight[n].action.type \in {"get", "sleep"}) => db' = db
      /\ db' # db =>
           \E n \in DOMAIN inflight :
             /\ ExecutionSettles(n)
             /\ LET action == inflight[n].action IN
                \/ action.type = "edit" /\ WritesOnly(action.key, action.value)
                \/ action.type = "delete" /\ WritesOnly(action.key, Null)
    ]_vars

\* witness: an expanded delete wrote null at /users/a and the get that
\* followed was executed
C32_Witness ==
  /\ recording = <<ExecStale, GetA>>
  /\ state = "COMPLETED"
  /\ db[ChildPath(<<"a">>)] = Null
  /\ db[ChildPath(<<"b">>)] = "ok"
  /\ execCount[1] > 0

\* ---------------------------------------------------------------- C33
\* the store holds no mapping at the path: a child's path holds a primitive
\* or nothing, the parent holds nothing when every child is absent, and no
\* other path holds a value
NoMappingAt(path, store) ==
  path = UsersPath => \A p \in Paths : store[p] = Null

\* an expansion of an exec entry whose path holds no mapping resolves
ResolvesWithoutMapping(n) ==
  /\ inflight[n].kind = "expand"
  /\ NoMappingAt(inflight[n].action.path, db)
  /\ inflight' = RemoveAt(inflight, n)
  /\ state' = state

C34_IndexWithinQueue ==
  /\ currentIndex >= 0
  /\ currentIndex <= Len(actionQueue)

\* ---------------------------------------------------------------- C35
\* the number of entries of the queue with one of the types
EntriesOfType(q, types) == Cardinality({k \in DOMAIN q : q[k].type \in types})

\* C35: the step that resolves an expansion lowers the number of exec
\* entries of the queue by exactly one and adds no sleep, get or exec entry;
\* and with confirmActions on, no edit or delete of the queue, recorded or
\* generated, is executed by processNextAction without the gate.
C35_ExpansionGivesGatedWrites ==
  [][ /\ ExpandResolved =>
           /\ EntriesOfType(actionQueue', {"exec"}) = EntriesOfType(actionQueue, {"exec"}) - 1
           /\ EntriesOfType(actionQueue', {"sleep"}) = EntriesOfType(actionQueue, {"sleep"})
           /\ EntriesOfType(actionQueue', {"get"}) = EntriesOfType(actionQueue, {"get"})
      /\ header.confirmActions =>
           \A n \in DOMAIN inflight' :
             inflight'[n].kind = "process" => inflight'[n].action.type \notin {"edit", "delete"}
    ]_vars

\* ---------------------------------------------------------------- C36
\* C36: with playMode normal, confirmActions off and a store that does not
\* fail, a playback that was started and gets no other key leaves RUNNING:
\* it reaches COMPLETED, or STOPPED by the watchdog.
C36_StartedPlaybackEnds ==
  (state = "RUNNING") ~> (state \in {"COMPLETED", "STOPPED"})

\* witness: a started playback executed both of its writes and completed
C36_Witness ==
  /\ state = "COMPLETED"
  /\ cmds = 1
  /\ recording = <<EditA, DeleteB>>
  /\ db[ChildPath(<<"a">>)] = "ok"
  /\ db[ChildPath(<<"b">>)] = Null
  /\ inflight = <<>>

\* ---------------------------------------------------------------- C37
\* C37: in the changes calculateDiff returns, no change's path equals or is
\* a proper prefix of the path of another change.
C37_NoPathCoversAnother ==
  diffPc = "computed" =>
    \A i, j \in DOMAIN calculatedDiffs :
      i # j => ~IsPrefix(calculatedDiffs[i].path, calculatedDiffs[j].path)

\* witness: a diff with two changes below one key and a change at another
C37_Witness ==
  /\ diffPc = "computed"
  /\ \E i, j, k \in DOMAIN calculatedDiffs :
       /\ calculatedDiffs[i].path = <<DiffKey.a, DiffKey.a>>
       /\ calculatedDiffs[j].path = <<DiffKey.a, DiffKey.b>>
       /\ Len(calculatedDiffs[k].path) = 1

\* ============================================ recording in the Explorer
\* (src/unnamed/part_003, with the manager of RecordingManager.ts)
\* Keys and submits are counted up to MaxKeys; the settling of an awaited
\* write is not an input and is not counted.

\* new Explorer, with the module's recordingManager
ExplorerInit ==
  /\ RecorderUnused
  /\ PlaybackUnused
  /\ CodecUnused
  /\ DiffUnused
  /\ ExecUnused

\* what a handler of the recording leaves alone; n: inputs it consumes
ExplorerStep(n) ==
  /\ inputs + n <= MaxKeys
  /\ inputs' = inputs + n
  /\ UNCHANGED <<currentDbData, newItem, calculatedDiffs, diffPc, diffEdits, diffs, updatePayload, stored, playbackVars, codecVars, execVars>>

\* useInput: the keys of BROWSE that open a form, Escape in a form, and the
\* answer to the delete confirmation. Nothing is read in LOADING.
useInput ==
  /\ mode # "LOADING"
  /\ ExplorerStep(1)
  /\ \/ /\ mode = "BROWSE"
        /\ \/ mode' \in {"ADD_ID", "EDIT_PRIMITIVE", "DELETE_CONFIRM"} /\ statusMessage' = ""
           \/ ~uiIsRecording /\ mode' = "RECORDING_CONFIG" /\ UNCHANGED statusMessage
           \/ uiIsRecording /\ mode' = "EXPORT_RECORDING" /\ UNCHANGED statusMessage
        /\ UNCHANGED pendingSet
     \/ /\ mode \in {"ADD_ID", "ADD_VALUE", "EDIT_PRIMITIVE", "DELETE_CONFIRM"}
        /\ mode' = "BROWSE"
        /\ UNCHANGED <<statusMessage, pendingSet>>
     \/ /\ mode = "RECORDING_CONFIG"
        /\ mode' = "BROWSE"
        /\ statusMessage' = "Recording cancelled."
        /\ UNCHANGED pendingSet
     \/ /\ mode = "EXPORT_RECORDING"
        /\ mode' = "BROWSE"
        /\ statusMessage' = "Export cancelled. Recording continues."
        /\ UNCHANGED pendingSet
     \/ /\ mode = "DELETE_CONFIRM"
        /\ mode' = "LOADING"
        /\ pendingSet' = Append(pendingSet, [action |-> [type |-> "delete", key |-> "/users/b"], isRecording |-> uiIsRecording])
        /\ UNCHANGED statusMessage
  /\ UNCHANGED <<isRecording, actionsRef, headerRef, heap, returned, lastOp, recOps, uiIsRecording, pendingExport, refreshing>>

\* onSubmit of the key, value and edit forms: the write is started and its
\* callbacks close over the isRecording of this render
FormSubmit ==
  /\ ExplorerStep(1)
  /\ \/ /\ mode = "ADD_ID"
        /\ mode' = "ADD_VALUE"
        /\ UNCHANGED <<statusMessage, pendingSet>>
     \/ /\ mode = "ADD_VALUE"
        /\ \/ /\ mode' = "LOADING"
              /\ pendingSet' = Append(pendingSet, [action |-> [type |-> "edit", key |-> "/users/a", value |-> "ok"], isRecording |-> uiIsRecording])
              /\ UNCHANGED statusMessage
           \/ /\ statusMessage' = "Invalid JSON."
              /\ UNCHANGED <<mode, pendingSet>>
     \/ /\ mode = "EDIT_PRIMITIVE"
        /\ mode' = "LOADING"
        /\ pendingSet' = Append(pendingSet, [action |-> [type |-> "edit", key |-> "/users", value |-> "stale"], isRecording |-> uiIsRecording])
        /\ UNCHANGED statusMessage
  /\ UNCHANGED <<isRecording, actionsRef, headerRef, heap, returned, lastOp, recOps, uiIsRecording, pendingExport, refreshing>>

\* onSubmit of the last step of the recording configuration:
\* recordingManager.start(), recordingManager.updateHeader({...}),
\* setIsRecording(true)
ConfigSubmit ==
  /\ mode = "RECORDING_CONFIG"
  /\ ExplorerStep(1)
  /\ isRecording' = TRUE
  /\ \E updates \in {DEFAULT_HEADER, [playMode |-> "loop", confirmActions |-> FALSE, autoSleepMs |-> 500, timeoutSeconds |-> 30]} :
       heap' = heap \o << <<>>, DEFAULT_HEADER, Spread(DEFAULT_HEADER, updates) >>
  /\ actionsRef' = Len(heap) + 1
  /\ headerRef' = Len(heap) + 3
  /\ lastOp' = "updateHeader"
  /\ recOps' = recOps + 2
  /\ uiIsRecording' = TRUE
  /\ mode' = "BROWSE"
  /\ statusMessage' = "Recording started! Press 'w' to stop and export."
  /\ UNCHANGED <<returned, pendingSet, pendingExport, refreshing>>

\* onSubmit of the export form, up to its await: recordingManager.stop(),
\* recordingManager.export(), writeFile(filename, content)
ExportSubmit ==
  /\ mode = "EXPORT_RECORDING"
  /\ ExplorerStep(1)
  /\ isRecording' = FALSE
  /\ returned' = returned \cup {[header |-> headerRef, actions |-> actionsRef,
                                 headerWas |-> heap[headerRef], actionsWas |-> heap[actionsRef]]}
  /\ lastOp' = "export"
  /\ recOps' = recOps + 2
  /\ pendingExport' = pendingExport + 1
  /\ UNCHANGED <<heap, actionsRef, headerRef, uiIsRecording, pendingSet, refreshing, mode, statusMessage>>

\* writeFile settles: the rest of the try block, or the catch block
ExportSettles ==
  /\ pendingExport > 0
  /\ ExplorerStep(0)
  /\ pendingExport' = pendingExport - 1
  /\ \/ /\ uiIsRecording' = FALSE
        /\ statusMessage' = "Recording saved"
        /\ mode' = "BROWSE"
     \/ /\ statusMessage' = "Export failed"
        /\ UNCHANGED <<uiIsRecording, mode>>
  /\ UNCHANGED <<isRecording, actionsRef, headerRef, heap, returned, lastOp, recOps, pendingSet, refreshing>>

\* set(ref, value) settles: then() records behind the closure's isRecording
\* and asks for a refresh, whose effect sets LOADING; catch() goes back to
\* BROWSE
SetSettles ==
  /\ ExplorerStep(0)
  /\ \E n \in DOMAIN pendingSet :
       /\ pendingSet' = RemoveAt(pendingSet, n)
       /\ \/ /\ IF pendingSet[n].isRecording
                THEN /\ Push(pendingSet[n].action)
                     /\ lastOp' = IF pendingSet[n].action.type = "edit" THEN "recordEdit" ELSE "recordDelete"
                     /\ recOps' = recOps + 1
                ELSE UNCHANGED <<isRecording, actionsRef, headerRef, heap, returned, lastOp, recOps>>
             /\ statusMessage' = IF pendingSet[n].action.type = "edit" THEN "Updated." ELSE "Deleted"
             /\ refreshing' = TRUE
             /\ mode' = "LOADING"
          \/ /\ statusMessage' = IF pendingSet[n].action.type = "edit" THEN "Update failed" ELSE "Delete failed"
             /\ mode' = "BROWSE"
             /\ UNCHANGED <<isRecording, actionsRef, headerRef, heap, returned, lastOp, recOps, refreshing>>
  /\ UNCHANGED <<uiIsRecording, pendingExport>>

\* the listener of the refresh effect delivers the value
Refreshed ==
  /\ refreshing
  /\ ExplorerStep(0)
  /\ refreshing' = FALSE
  /\ mode' = IF mode = "LOADING" THEN "BROWSE" ELSE mode
  /\ UNCHANGED <<isRecording, actionsRef, headerRef, heap, returned, lastOp, recOps, uiIsRecording, pendingSet, pendingExport, statusMessage>>

ExplorerNext ==
  \/ useInput
  \/ FormSubmit
  \/ ConfigSubmit
  \/ ExportSubmit
  \/ ExportSettles
  \/ SetSettles
  \/ Refreshed

ExplorerSpec == ExplorerInit /\ [][ExplorerNext]_vars

\* ---- C38: once no export is being written, the Explorer's isRecording
\* indicator is true exactly when the recording session of the manager is
\* active, whatever starts, recorded mutations, exports (failed ones
\* included) and export cancels came before
C38_IndicatorMatchesSession == pendingExport = 0 => (uiIsRecording = isRecording)

\* ---- C39: while recording (the session is active and the indicator is
\* on), a mutation of the
\* Explorer is appended to the recording only when its store write has
\* succeeded, a failed write appends nothing, and every write that succeeds
\* is appended at its completion: the recording is the sequence of the
\* successful writes in their order of completion
SetSucceeds(n) ==
  /\ n \in DOMAIN pendingSet
  /\ pendingSet' = RemoveAt(pendingSet, n)
  /\ mode' = "LOADING"

SetFails(n) ==
  /\ n \in DOMAIN pendingSet
  /\ pendingSet' = RemoveAt(pendingSet, n)
  /\ mode' = "BROWSE"

C39_RecordingIsSuccessfulWrites ==
  [][
    /\ (actionsRef' = actionsRef /\ heap'[actionsRef] # heap[actionsRef])
         => \E n \in DOMAIN pendingSet :
              SetSucceeds(n) /\ heap'[actionsRef] = Append(heap[actionsRef], pendingSet[n].action)
    /\ \A n \in DOMAIN pendingSet :
         SetFails(n) => heap'[actionsRef'] = heap[actionsRef]
    /\ \A n \in DOMAIN pendingSet :
         (isRecording /\ uiIsRecording /\ SetSucceeds(n))
           => heap'[actionsRef'] = Append(heap[actionsRef], pendingSet[n].action)
  ]_vars

====
